---- MODULE Spec2Model ----
(***************************************************************************)
(* A model of rigra's convention engine: the key-order normalizer          *)
(* (format.rs apply_order_from), the lint order check (lint.rs lint_rule), *)
(* the line-break passes (format.rs) and the structural merge (sync.rs).   *)
(*                                                                         *)
(* Text is modelled as it is: a text is a sequence of lines, a line is a   *)
(* sequence of one-character strings.  JSON values are records with the    *)
(* same four fields whatever their kind, so that any two values compare.   *)
(* serde_json is taken with its "preserve_order" feature (the test         *)
(* test_apply_order_top_then_sub_then_rest only passes with it): an object *)
(* is a sequence of entries, insert of a new key appends, insert of an     *)
(* existing key replaces in place, remove is swap_remove.                  *)
(***************************************************************************)
EXTENDS Integers, Sequences, FiniteSets, TLC

\* ------------------------------------------------------------------ bounds

\* Most top-level keys of a document handed to the normalizer.
MaxKeys == 4
\* Most groups in order.top.
MaxGroups == 2
\* Most groups in order.sub.
MaxSubGroups == 2

\* ------------------------------------------------------- sequences, chars

SeqsUpTo(S, n) == UNION {[1..m -> S] : m \in 0..n}

Range(s) == {s[i] : i \in 1..Len(s)}

IsInjective(s) == \A i, j \in 1..Len(s) : s[i] = s[j] => i = j

RECURSIVE Flatten(_)
Flatten(ss) == IF ss = <<>> THEN <<>> ELSE Head(ss) \o Flatten(Tail(ss))

\* The characters the model's texts use, in byte (ASCII) order.
CharOrder ==
    <<"\n", " ", "\"", "$", ",", ".", "1", "2", "3", ":", "[", "]",
      "a", "b", "c", "f", "g", "l", "n", "s", "u", "x", "{", "}">>

CharRank(c) == CHOOSE i \in 1..Len(CharOrder) : CharOrder[i] = c

\* String < String in Rust: lexicographic on bytes, a proper prefix first.
RECURSIVE LexLess(_, _)
LexLess(a, b) ==
    IF b = <<>> THEN FALSE
    ELSE IF a = <<>> THEN TRUE
    ELSE IF Head(a) = Head(b) THEN LexLess(Tail(a), Tail(b))
    ELSE CharRank(Head(a)) < CharRank(Head(b))

RECURSIVE InsertSorted(_, _)
InsertSorted(k, s) ==
    IF s = <<>> THEN <<k>>
    ELSE IF LexLess(k, Head(s)) THEN <<k>> \o s
    ELSE <<Head(s)>> \o InsertSorted(k, Tail(s))

\* A sort that was forgotten: the keys stay as they come.
MutSortKeys(s) == s

\* Vec<String>::sort.
RECURSIVE SortKeys(_)
SortKeys(s) == IF s = <<>> THEN <<>> ELSE InsertSorted(Head(s), SortKeys(Tail(s)))

\* ------------------------------------------------------------ JSON values

JNull == [t |-> "null", s |-> <<>>, kv |-> <<>>, el |-> <<>>]
JNum(d) == [t |-> "num", s |-> d, kv |-> <<>>, el |-> <<>>]
JStr(cs) == [t |-> "str", s |-> cs, kv |-> <<>>, el |-> <<>>]
JArr(items) == [t |-> "arr", s |-> <<>>, kv |-> <<>>, el |-> items]
JObj(entries) == [t |-> "obj", s |-> <<>>, kv |-> entries, el |-> <<>>]
Entry(key, val) == [k |-> key, v |-> val]

\* serde_json::Map (preserve_order): the entries in insertion order.
MapKeys(m) == [i \in 1..Len(m) |-> m[i].k]
MapContains(m, key) == \E i \in 1..Len(m) : m[i].k = key
MapIndex(m, key) == CHOOSE i \in 1..Len(m) : m[i].k = key
MapGet(m, key) == m[MapIndex(m, key)].v

\* Map::insert: replaces the value of an existing key in place, appends a new key.
MapInsert(m, key, val) ==
    IF MapContains(m, key)
    THEN [m EXCEPT ![MapIndex(m, key)] = Entry(key, val)]
    ELSE Append(m, Entry(key, val))

\* Map::remove is swap_remove: the last entry takes the removed entry's place.
MapRemove(m, key) ==
    IF ~MapContains(m, key) THEN m
    ELSE LET i == MapIndex(m, key)
             n == Len(m)
         IN  IF i = n THEN SubSeq(m, 1, n - 1)
             ELSE [j \in 1..(n - 1) |-> IF j = i THEN m[n] ELSE m[j]]

\* ------------------------------------------------------- JSON as text
\* A text is a sequence of lines (str::lines of the file's content, which
\* the tool writes as the lines joined by "\n"); a line is a sequence of
\* characters.  The model's strings and keys hold no character that JSON
\* escapes, so a string is written between quotes as it is.

Indent(d) == [i \in 1..(2 * d) |-> " "]
Quote(cs) == <<"\"">> \o cs \o <<"\"">>

\* The lines of one member or element: the first one prefixed, the last one
\* followed by a comma unless it ends the list.
Decorate(lines, prefix, more) ==
    [i \in 1..Len(lines) |->
        (IF i = 1 THEN prefix ELSE <<>>) \o lines[i]
            \o (IF i = Len(lines) /\ more THEN <<",">> ELSE <<>>)]

\* serde_json::to_string_pretty (PrettyFormatter, two spaces): the lines of
\* a value nested d deep, the first without its indentation.
RECURSIVE PrettyLines(_, _)
RECURSIVE PrettyElements(_, _)
RECURSIVE PrettyMembers(_, _)
PrettyLines(v, d) ==
    CASE v.t = "null" -> << <<"n", "u", "l", "l">> >>
      [] v.t = "num" -> << v.s >>
      [] v.t = "str" -> << Quote(v.s) >>
      [] v.t = "arr" ->
            IF v.el = <<>> THEN << <<"[", "]">> >>
            ELSE << <<"[">> >> \o PrettyElements(v.el, d + 1) \o << Indent(d) \o <<"]">> >>
      [] v.t = "obj" ->
            IF v.kv = <<>> THEN << <<"{", "}">> >>
            ELSE << <<"{">> >> \o PrettyMembers(v.kv, d + 1) \o << Indent(d) \o <<"}">> >>
PrettyElements(el, d) ==
    IF el = <<>> THEN <<>>
    ELSE Decorate(PrettyLines(Head(el), d), Indent(d), Len(el) > 1)
            \o PrettyElements(Tail(el), d)
PrettyMembers(kv, d) ==
    IF kv = <<>> THEN <<>>
    ELSE Decorate(PrettyLines(Head(kv).v, d),
                  Indent(d) \o Quote(Head(kv).k) \o <<":", " ">>, Len(kv) > 1)
            \o PrettyMembers(Tail(kv), d)

ToStringPretty(v) == PrettyLines(v, 0)

\* The file's characters: its lines joined by "\n".
RECURSIVE JoinLines(_)
JoinLines(text) ==
    IF text = <<>> THEN <<>>
    ELSE IF Len(text) = 1 THEN text[1]
    ELSE text[1] \o <<"\n">> \o JoinLines(Tail(text))

Digits == {"1", "2", "3"}

RECURSIVE SkipWs(_, _)
SkipWs(cs, i) ==
    IF i <= Len(cs) /\ cs[i] \in {" ", "\n"} THEN SkipWs(cs, i + 1) ELSE i

RECURSIVE SkipDigits(_, _)
SkipDigits(cs, i) ==
    IF i <= Len(cs) /\ cs[i] \in Digits THEN SkipDigits(cs, i + 1) ELSE i

\* The position of the next quote at or after i, 0 if there is none.
RECURSIVE FindQuote(_, _)
FindQuote(cs, i) ==
    IF i > Len(cs) THEN 0
    ELSE IF cs[i] = "\"" THEN i
    ELSE FindQuote(cs, i + 1)

ParseFail == [ok |-> FALSE, v |-> JNull, i |-> 0]
ParseOk(val, next) == [ok |-> TRUE, v |-> val, i |-> next]

\* serde_json::from_str on the model's texts: a recursive descent from
\* position i; a repeated key keeps its first place and its last value.
RECURSIVE ParseValue(_, _)
RECURSIVE ParseMembers(_, _, _)
RECURSIVE ParseElements(_, _, _)
ParseValue(cs, i0) ==
    LET i == SkipWs(cs, i0) IN
    IF i > Len(cs) THEN ParseFail
    ELSE IF cs[i] = "{" THEN
        LET j == SkipWs(cs, i + 1) IN
        IF j <= Len(cs) /\ cs[j] = "}" THEN ParseOk(JObj(<<>>), j + 1)
        ELSE ParseMembers(cs, j, <<>>)
    ELSE IF cs[i] = "[" THEN
        LET j == SkipWs(cs, i + 1) IN
        IF j <= Len(cs) /\ cs[j] = "]" THEN ParseOk(JArr(<<>>), j + 1)
        ELSE ParseElements(cs, j, <<>>)
    ELSE IF cs[i] = "\"" THEN
        LET e == FindQuote(cs, i + 1) IN
        IF e = 0 THEN ParseFail ELSE ParseOk(JStr(SubSeq(cs, i + 1, e - 1)), e + 1)
    ELSE IF cs[i] \in Digits THEN
        LET e == SkipDigits(cs, i) IN ParseOk(JNum(SubSeq(cs, i, e - 1)), e)
    ELSE IF i + 3 <= Len(cs) /\ SubSeq(cs, i, i + 3) = <<"n", "u", "l", "l">>
    THEN ParseOk(JNull, i + 4)
    ELSE ParseFail
ParseMembers(cs, i, acc) ==
    IF i > Len(cs) \/ cs[i] # "\"" THEN ParseFail
    ELSE LET e == FindQuote(cs, i + 1) IN
    IF e = 0 THEN ParseFail
    ELSE LET c == SkipWs(cs, e + 1) IN
    IF c > Len(cs) \/ cs[c] # ":" THEN ParseFail
    ELSE LET r == ParseValue(cs, c + 1) IN
    IF ~r.ok THEN ParseFail
    ELSE LET n == SkipWs(cs, r.i)
             acc2 == MapInsert(acc, SubSeq(cs, i + 1, e - 1), r.v)
         IN  IF n > Len(cs) THEN ParseFail
             ELSE IF cs[n] = "," THEN ParseMembers(cs, SkipWs(cs, n + 1), acc2)
             ELSE IF cs[n] = "}" THEN ParseOk(JObj(acc2), n + 1)
             ELSE ParseFail
ParseElements(cs, i, acc) ==
    LET r == ParseValue(cs, i) IN
    IF ~r.ok THEN ParseFail
    ELSE LET n == SkipWs(cs, r.i) IN
         IF n > Len(cs) THEN ParseFail
         ELSE IF cs[n] = "," THEN ParseElements(cs, n + 1, Append(acc, r.v))
         ELSE IF cs[n] = "]" THEN ParseOk(JArr(Append(acc, r.v)), n + 1)
         ELSE ParseFail

\* from_str(text): the whole text is one value, or the parse fails.
FromStr(text) ==
    LET cs == JoinLines(text)
        r == ParseValue(cs, 1)
    IN  IF r.ok /\ SkipWs(cs, r.i) > Len(cs)
        THEN [ok |-> TRUE, v |-> r.v]
        ELSE [ok |-> FALSE, v |-> JNull]

\* --------------------------------------------- the key-order normalizer

\* The loops over listed keys without the assignment changed = true.
RECURSIVE MutMoveKeys(_, _, _, _)
MutMoveKeys(keys, obj, newObj, changed) ==
    IF keys = <<>> THEN [obj |-> obj, new |-> newObj, changed |-> changed]
    ELSE IF MapContains(obj, Head(keys))
    THEN MutMoveKeys(Tail(keys), MapRemove(obj, Head(keys)),
                     MapInsert(newObj, Head(keys), MapGet(obj, Head(keys))), changed)
    ELSE MutMoveKeys(Tail(keys), obj, newObj, changed)

\* The two loops of apply_order_from over listed keys: a key present in obj
\* is removed from it, appended to new_obj, and sets changed.
RECURSIVE MoveKeys(_, _, _, _)
MoveKeys(keys, obj, newObj, changed) ==
    IF keys = <<>> THEN [obj |-> obj, new |-> newObj, changed |-> changed]
    ELSE IF MapContains(obj, Head(keys))
    THEN MoveKeys(Tail(keys), MapRemove(obj, Head(keys)),
                  MapInsert(newObj, Head(keys), MapGet(obj, Head(keys))), TRUE)
    ELSE MoveKeys(Tail(keys), obj, newObj, changed)

\* MoveRest that also sorts the keys of a moved value that is an object.
RECURSIVE MutMoveRest(_, _, _)
MutMoveRest(keys, obj, newObj) ==
    IF keys = <<>> THEN newObj
    ELSE LET v == MapGet(obj, Head(keys))
             w == IF v.t = "obj"
                  THEN JObj(MutMoveRest(SortKeys(MapKeys(v.kv)), v.kv, <<>>)) ELSE v
         IN  MutMoveRest(Tail(keys), MapRemove(obj, Head(keys)),
                         MapInsert(newObj, Head(keys), w))

\* The last loop: the remaining keys, sorted, are moved over; changed is left alone.
RECURSIVE MoveRest(_, _, _)
MoveRest(keys, obj, newObj) ==
    IF keys = <<>> THEN newObj
    ELSE MoveRest(Tail(keys), MapRemove(obj, Head(keys)),
                  MapInsert(newObj, Head(keys), MapGet(obj, Head(keys))))

\* apply_order_from(json, top, sub); subVals is sub.values() in the order this
\* process's HashMap iterates.
ApplyOrderFrom(json, top, subVals) ==
    IF json.t # "obj" THEN [json |-> json, changed |-> FALSE]
    ELSE LET a == MoveKeys(Flatten(top), json.kv, <<>>, FALSE)
             b == MoveKeys(Flatten(subVals), a.obj, a.new, a.changed)
             c == MoveRest(SortKeys(MapKeys(b.obj)), b.obj, b.new)
         IN  [json |-> JObj(c), changed |-> b.changed]

\* ------------------------------------------------- lint's order check

RECURSIVE PresentListed(_, _)
PresentListed(keys, obj) ==
    IF keys = <<>> THEN <<>>
    ELSE IF MapContains(obj, Head(keys))
    THEN <<Head(keys)>> \o PresentListed(Tail(keys), obj)
    ELSE PresentListed(Tail(keys), obj)

RECURSIVE FilterNotIn(_, _)
FilterNotIn(keys, seen) ==
    IF keys = <<>> THEN <<>>
    ELSE IF Head(keys) \in seen THEN FilterNotIn(Tail(keys), seen)
    ELSE <<Head(keys)>> \o FilterNotIn(Tail(keys), seen)

\* lint_rule's `expected`: every listing of a present key of order.top, then
\* the other keys sorted; order.sub is not read.
LintExpected(obj, top) ==
    LET expected == PresentListed(Flatten(top), obj)
    IN  expected \o SortKeys(FilterNotIn(MapKeys(obj), Range(expected)))

\* lint_rule pushes the order issue iff expected != actual.
LintOrderIssue(json, top) ==
    json.t = "obj" /\ LintExpected(json.kv, top) # MapKeys(json.kv)

\* ------------------------------------------------ the line-break passes

RECURSIVE TrimStartMatches(_, _)
TrimStartMatches(cs, c) ==
    IF cs # <<>> /\ Head(cs) = c THEN TrimStartMatches(Tail(cs), c) ELSE cs

RECURSIVE TrimEnd(_)
TrimEnd(cs) ==
    IF cs # <<>> /\ cs[Len(cs)] = " " THEN TrimEnd(SubSeq(cs, 1, Len(cs) - 1)) ELSE cs

\* str::trim_start and str::trim (the texts hold no other white space).
TrimStart(cs) == TrimStartMatches(cs, " ")
Trim(cs) == TrimEnd(TrimStart(cs))

\* str::contains(pat), str::ends_with(c), str::starts_with('"').
Contains(cs, pat) ==
    \E i \in 1..(Len(cs) - Len(pat) + 1) : SubSeq(cs, i, i + Len(pat) - 1) = pat
EndsWith(cs, c) == cs # <<>> /\ cs[Len(cs)] = c
StartsWithQuote(t) == t # <<>> /\ t[1] = "\""

\* What the passes read as a line's key: the characters between the line's
\* first quote and the next one, if there is a next one.
LineKey(t) ==
    LET e == FindQuote(t, 2)
    IN  IF StartsWithQuote(t) /\ e # 0
        THEN [some |-> TRUE, k |-> SubSeq(t, 2, e - 1)]
        ELSE [some |-> FALSE, k |-> <<>>]
NoField == [some |-> FALSE, k |-> <<>>]

\* for ch in trimmed.chars(): '{' counts up and '}' counts down, in strings too.
BraceDelta(t) ==
    Cardinality({i \in 1..Len(t) : t[i] = "{"}) - Cardinality({i \in 1..Len(t) : t[i] = "}"})

\* A HashMap<String, LineBreakRule> is a function from its keys to "keep" or
\* "none"; HashMap::get gives "absent" for a key it does not hold.
NoRules == [k \in {} |-> "none"]
RuleOf(rules, key) == IF key \in DOMAIN rules THEN rules[key] ELSE "absent"

\* merge_linebreak_fields: the policy's rules, each override on top of them;
\* the override "keep" is Keep and any other string is None.
MergeLinebreakFields(policy, overrideMap) ==
    [k \in DOMAIN policy \cup DOMAIN overrideMap |->
        IF k \in DOMAIN overrideMap
        THEN (IF overrideMap[k] = "keep" THEN "keep" ELSE "none")
        ELSE policy[k]]

Front(s) == SubSeq(s, 1, Len(s) - 1)

\* "ensure exactly one blank line": a last line that is blank is popped when
\* the one before it is blank too; a last line that is not blank gets a
\* blank one after it; an empty out is left alone.
EnsureOne(out) ==
    IF out = <<>> THEN out
    ELSE IF out[Len(out)] = <<>>
    THEN (IF Len(out) >= 2 /\ out[Len(out) - 1] = <<>> THEN Front(out) ELSE out)
    ELSE Append(out, <<>>)

\* "ensure none": one blank last line is popped.
EnsureNone(out) ==
    IF out # <<>> /\ out[Len(out)] = <<>> THEN Front(out) ELSE out

GroupFirstKeys(groups) == {groups[i][1] : i \in {j \in 1..Len(groups) : groups[j] # <<>>}}

\* The loop of apply_linebreaks over pretty.lines().
RECURSIVE BetweenScan(_, _, _, _, _, _)
BetweenScan(lines, firsts, rules, out, seenFirst, depth) ==
    IF lines = <<>> THEN out
    ELSE LET t == TrimStart(Head(lines))
             key == LineKey(t)
             hit == depth = 1 /\ key.some /\ key.k \in firsts
             out1 == IF hit /\ seenFirst
                     THEN (IF RuleOf(rules, key.k) = "none" THEN EnsureNone(out)
                           ELSE EnsureOne(out))
                     ELSE out
         IN  BetweenScan(Tail(lines), firsts, rules, Append(out1, Head(lines)),
                         seenFirst \/ hit, depth + BraceDelta(t))

\* apply_linebreaks(pretty, groups, between_groups, field_rules).
ApplyLinebreaks(pretty, groups, between, rules) ==
    IF ~between \/ groups = <<>> THEN pretty
    ELSE BetweenScan(pretty, GroupFirstKeys(groups), rules, <<>>, FALSE, 0)

\* The loop of compute_in_field_keep_map over original.lines(); result is the
\* map as a set of <<field, child>> pairs.
RECURSIVE KeepScan(_, _, _, _, _, _)
KeepScan(lines, targets, result, active, depth, prevBlank) ==
    IF lines = <<>> THEN result
    ELSE LET t == TrimStart(Head(lines))
             key == LineKey(t)
             opens == /\ ~active.some /\ key.some /\ key.k \in targets
                      /\ Contains(t, <<":", " ", "{">>)
             act1 == IF opens THEN key ELSE active
             d0 == IF opens THEN 0 ELSE depth
             pb == IF opens THEN FALSE ELSE prevBlank
             d1 == IF act1.some THEN d0 + BraceDelta(t) ELSE d0
             rec == /\ act1.some /\ d1 = 1 /\ StartsWithQuote(t)
                    /\ ~Contains(t, <<"\"", ":", " ", "{">>)
                    /\ pb /\ key.some
             act2 == IF act1.some /\ d1 <= 0 /\ Contains(t, <<"}">>) THEN NoField ELSE act1
         IN  KeepScan(Tail(lines), targets,
                      IF rec THEN result \cup {<<act1.k, key.k>>} ELSE result,
                      act2, d1, t = <<>>)

\* compute_in_field_keep_map(original, in_field_rules).
ComputeInFieldKeepMap(original, rules) ==
    LET targets == {k \in DOMAIN rules : rules[k] = "keep"}
    IN  IF targets = {} THEN {}
        ELSE KeepScan(original, targets, {}, NoField, 0, FALSE)

\* The loop of apply_in_field_linebreaks over pretty.lines().
RECURSIVE InFieldScan(_, _, _, _, _, _, _)
InFieldScan(lines, rules, keepMap, out, active, seenFirst, depth) ==
    IF lines = <<>> THEN out
    ELSE LET t == TrimStart(Head(lines))
             key == LineKey(t)
             opens == /\ ~active.some /\ key.some /\ key.k \in DOMAIN rules
                      /\ Contains(t, <<":", " ", "{">>)
             act1 == IF opens THEN key ELSE active
             seen1 == IF opens THEN FALSE ELSE seenFirst
             d0 == IF opens THEN 0 ELSE depth
             d1 == IF act1.some THEN d0 + BraceDelta(t) ELSE d0
             child == /\ act1.some /\ d1 = 1 /\ StartsWithQuote(t)
                      /\ ~Contains(t, <<"\"", ":", " ", "{">>)
             out1 == IF child /\ seen1
                     THEN (IF rules[act1.k] = "keep" /\ key.some
                              /\ <<act1.k, key.k>> \in keepMap
                           THEN EnsureOne(out) ELSE EnsureNone(out))
                     ELSE out
             act2 == IF /\ act1.some /\ d1 <= 0
                        /\ (t = <<"}">> \/ t = <<"}", ",">> \/ EndsWith(t, "}"))
                     THEN NoField ELSE act1
         IN  InFieldScan(Tail(lines), rules, keepMap, Append(out1, Head(lines)),
                         act2, seen1 \/ child, d1)

\* apply_in_field_linebreaks(pretty, in_field_rules, keep_map).
ApplyInFieldLinebreaks(pretty, rules, keepMap) ==
    IF DOMAIN rules = {} THEN pretty
    ELSE InFieldScan(pretty, rules, keepMap, <<>>, NoField, FALSE, 0)

\* between = lb_between_groups_override.or(policy's between_groups).unwrap_or(false)
\* (each an Option<bool>: "absent", "true" or "false").
BetweenGroups(cfg) ==
    IF cfg.betweenOv # "absent" THEN cfg.betweenOv = "true"
    ELSE IF cfg.betweenPol # "absent" THEN cfg.betweenPol = "true"
    ELSE FALSE

\* The closure run_format maps over the target files, on one file, up to its
\* write.  data: the file; subVals: order.sub's lists as this process iterates
\* them.  brk is s after apply_linebreaks, out the final s.
FormatPlan(data, cfg, subVals) ==
    LET skip == [changed |-> FALSE, brk |-> <<>>, out |-> <<>>]
    IN  IF ~data.exists \/ ~FromStr(data.text).ok \/ ~cfg.hasOrder THEN skip
        ELSE LET r == ApplyOrderFrom(FromStr(data.text).v, cfg.top, subVals)
                 pretty == ToStringPretty(r.json)
                 brk == IF cfg.strict
                        THEN ApplyLinebreaks(pretty, cfg.top, BetweenGroups(cfg),
                                             MergeLinebreakFields(cfg.before, cfg.beforeOv))
                        ELSE pretty
                 inFields == MergeLinebreakFields(cfg.inF, cfg.inOv)
                 out == IF cfg.strict
                        THEN ApplyInFieldLinebreaks(brk, inFields,
                                ComputeInFieldKeepMap(data.text, inFields))
                        ELSE pretty
             IN  IF ~r.changed THEN skip
                 ELSE [changed |-> TRUE, brk |-> brk, out |-> out]

\* The closure's end: with write set the file is written (ioOk: whether
\* fs::write succeeds, which is not looked at) and no preview is returned;
\* without it the text is returned as the preview.
FormatFile(plan, data, write, ioOk) ==
    [changed |-> plan.changed,
     preview |-> plan.changed /\ ~write,
     file |-> IF plan.changed /\ write /\ ioOk THEN [exists |-> TRUE, text |-> plan.out]
              ELSE data]

\* ------------------------------------------------- the structural merge


\* str::split('.') with the empty pieces dropped; cur is the piece being read.
RECURSIVE SplitDots(_, _)
SplitDots(cs, cur) ==
    IF cs = <<>> THEN (IF cur = <<>> THEN <<>> ELSE <<cur>>)
    ELSE IF Head(cs) = "." THEN (IF cur = <<>> THEN <<>> ELSE <<cur>>) \o SplitDots(Tail(cs), <<>>)
    ELSE SplitDots(Tail(cs), Append(cur, Head(cs)))

\* set_path's segments: the path trimmed, a leading "$" and "." dropped.
PathSegs(path) == SplitDots(TrimStartMatches(TrimStartMatches(Trim(path), "$"), "."), <<>>)

None == [some |-> FALSE, v |-> JNull]
Some(val) == [some |-> TRUE, v |-> val]

\* utils::get_json_path: the dotted-key walk from the root; a key that is
\* missing, or a value on the way that is no object, gives None.
RECURSIVE WalkPath(_, _)
WalkPath(json, segs) ==
    IF segs = <<>> THEN Some(json)
    ELSE IF json.t = "obj" /\ MapContains(json.kv, Head(segs))
    THEN WalkPath(MapGet(json.kv, Head(segs)), Tail(segs))
    ELSE None

GetJsonPath(json, path) == WalkPath(json, PathSegs(path))

\* set_path that takes a value that is no object for an empty object and
\* goes on.
RECURSIVE MutSetAt(_, _, _)
MutSetAt(cur, segs, val) ==
    LET kv == IF cur.t = "obj" THEN cur.kv ELSE <<>>
    IN  IF Len(segs) = 1
        THEN (IF val.some THEN JObj(MapInsert(kv, segs[1], val.v))
              ELSE JObj(MapRemove(kv, segs[1])))
        ELSE LET child == IF MapContains(kv, Head(segs))
                          THEN MapGet(kv, Head(segs)) ELSE JObj(<<>>)
             IN  JObj(MapInsert(kv, Head(segs), MutSetAt(child, Tail(segs), val)))

\* set_path below the root: cur is the value reached, segs what is left of the
\* path.  A value that is no object ends the update with nothing changed; a
\* missing key on the way is bound to an empty object, for a removal too.
RECURSIVE SetAt(_, _, _)
SetAt(cur, segs, val) ==
    IF cur.t # "obj" THEN cur
    ELSE IF Len(segs) = 1
    THEN (IF val.some THEN JObj(MapInsert(cur.kv, segs[1], val.v))
          ELSE JObj(MapRemove(cur.kv, segs[1])))
    ELSE LET child == IF MapContains(cur.kv, Head(segs))
                      THEN MapGet(cur.kv, Head(segs)) ELSE JObj(<<>>)
         IN  JObj(MapInsert(cur.kv, Head(segs), SetAt(child, Tail(segs), val)))

\* The closure set_path of apply_json_merge.
SetPath(root, path, val) ==
    IF PathSegs(path) = <<>> THEN (IF val.some THEN val.v ELSE JNull)
    ELSE SetAt(root, PathSegs(path), val)

\* for p in override_paths: the source's value, if it has one, is set.
RECURSIVE ApplyOverride(_, _, _)
ApplyOverride(result, srcJson, paths) ==
    IF paths = <<>> THEN result
    ELSE LET v == GetJsonPath(srcJson, Head(paths))
         IN  ApplyOverride(IF v.some THEN SetPath(result, Head(paths), v) ELSE result,
                           srcJson, Tail(paths))

\* ApplyKeep without the removal: a path the target does not bind is left
\* as the source has it.
RECURSIVE MutApplyKeep(_, _, _)
MutApplyKeep(result, dstJson, paths) ==
    IF paths = <<>> THEN result
    ELSE LET v == GetJsonPath(dstJson, Head(paths))
         IN  MutApplyKeep(IF v.some THEN SetPath(result, Head(paths), v) ELSE result,
                          dstJson, Tail(paths))

\* for p in keep_paths, and again for p in nosync_paths: the target's value
\* is set, or the path is removed when the target has none.
RECURSIVE ApplyKeep(_, _, _)
ApplyKeep(result, dstJson, paths) ==
    IF paths = <<>> THEN result
    ELSE ApplyKeep(SetPath(result, Head(paths), GetJsonPath(dstJson, Head(paths))),
                   dstJson, Tail(paths))

\* UnionInto looking for each source item among the target's items only.
MutUnionInto(merged, sa) ==
    merged \o SelectSeq(sa, LAMBDA it : \A i \in 1..Len(merged) : merged[i] # it)

\* merged.extend(target's array); then each source item not yet in merged.
\* (The model's arrays hold numbers, on which Value's == is equality.)
RECURSIVE UnionInto(_, _)
UnionInto(merged, sa) ==
    IF sa = <<>> THEN merged
    ELSE UnionInto(IF \E i \in 1..Len(merged) : merged[i] = Head(sa)
                   THEN merged ELSE Append(merged, Head(sa)),
                   Tail(sa))

\* for (path, strat) in mcfg.array, in the map's iteration order.
RECURSIVE ApplyArrays(_, _, _, _)
ApplyArrays(result, srcJson, dstJson, entries) ==
    IF entries = <<>> THEN result
    ELSE LET path == Head(entries).path
             sv == GetJsonPath(srcJson, path)
             dv == GetJsonPath(dstJson, path)
             da == IF dv.some /\ dv.v.t = "arr" THEN dv.v.el ELSE <<>>
             next ==
                IF Head(entries).strat = "union"
                THEN (IF sv.some /\ sv.v.t = "arr"
                      THEN SetPath(result, path, Some(JArr(UnionInto(da, sv.v.el))))
                      ELSE result)
                ELSE (IF sv.some THEN SetPath(result, path, sv) ELSE result)
         IN  ApplyArrays(next, srcJson, dstJson, Tail(entries))

\* MergeResult starting from the target's copy instead of the source's.
MutMergeResult(srcJson, dstJson, cfg) ==
    ApplyArrays(
        ApplyKeep(
            ApplyKeep(ApplyOverride(dstJson, srcJson, cfg.override), dstJson, cfg.keep),
            dstJson, cfg.nosync),
        srcJson, dstJson, cfg.array)

\* The assembly of apply_json_merge: the source's copy, then override, keep,
\* noSync and the array strategies, in that order.
MergeResult(srcJson, dstJson, cfg) ==
    ApplyArrays(
        ApplyKeep(
            ApplyKeep(ApplyOverride(srcJson, srcJson, cfg.override), dstJson, cfg.keep),
            dstJson, cfg.nosync),
        srcJson, dstJson, cfg.array)

\* fingerprint: the text's 64-bit hash and its length.  Two different texts of
\* the model are taken to hash differently.
Fingerprint(text) == [hash |-> text, len |-> Len(JoinLines(text))]

NoFile == [exists |-> FALSE, text |-> <<>>]
File(text) == [exists |-> TRUE, text |-> text]

\* copy_rule on a source that is a file or is missing: the target's parent
\* directory is created whether or not write is set; the copy's own failure
\* is not looked at.
CopyRule(src, dst, dir, chk, write, ioOk) ==
    IF src.exists
    THEN [wrote |-> write, wouldWrite |-> TRUE, merged |-> None,
          dst |-> IF write /\ ioOk THEN File(src.text) ELSE dst,
          dir |-> TRUE, chk |-> chk]
    ELSE [wrote |-> FALSE, wouldWrite |-> FALSE, merged |-> None,
          dst |-> dst, dir |-> dir, chk |-> chk]

\* apply_json_merge up to its comparison of fingerprints: what was read, the
\* assembled document and its serialization.
MergePlan(src, dst, cfg) ==
    IF ~src.exists
    THEN [kind |-> "nosrc", srcJson |-> JNull, dstJson |-> JNull, merged |-> None,
          outStr |-> <<>>, cfg |-> cfg]
    ELSE LET srcParse == FromStr(src.text)
             dstJson == IF dst.exists THEN FromStr(dst.text).v ELSE JNull
             result == MergeResult(srcParse.v, dstJson, cfg)
         IN  IF ~srcParse.ok
             THEN [kind |-> "copy", srcJson |-> JNull, dstJson |-> JNull, merged |-> None,
                   outStr |-> <<>>, cfg |-> cfg]
             ELSE [kind |-> "merge", srcJson |-> srcParse.v, dstJson |-> dstJson,
                   merged |-> Some(result), outStr |-> ToStringPretty(result), cfg |-> cfg]

\* apply_json_merge that writes the marker file whether or not write is set.
MutMarkerAlways(plan, src, dst, dir, chk, write, ioOk) ==
    IF plan.kind = "nosrc"
    THEN [wrote |-> FALSE, wouldWrite |-> FALSE, merged |-> None,
          dst |-> dst, dir |-> dir, chk |-> chk]
    ELSE IF plan.kind = "copy" THEN CopyRule(src, dst, dir, chk, write, ioOk)
    ELSE IF dst.exists /\ Fingerprint(dst.text) = Fingerprint(plan.outStr)
    THEN [wrote |-> FALSE, wouldWrite |-> FALSE, merged |-> plan.merged,
          dst |-> dst, dir |-> dir, chk |-> chk]
    ELSE [wrote |-> write /\ ioOk, wouldWrite |-> TRUE, merged |-> plan.merged,
          dst |-> IF write /\ ioOk THEN File(plan.outStr) ELSE dst,
          dir |-> TRUE, chk |-> File(<<Fingerprint(plan.outStr)>>)]

\* apply_json_merge that takes a marker holding the output's fingerprint as
\* proof that the target is up to date.
MutMarkerAsCache(plan, src, dst, dir, chk, write, ioOk) ==
    IF plan.kind = "nosrc"
    THEN [wrote |-> FALSE, wouldWrite |-> FALSE, merged |-> None,
          dst |-> dst, dir |-> dir, chk |-> chk]
    ELSE IF plan.kind = "copy" THEN CopyRule(src, dst, dir, chk, write, ioOk)
    ELSE IF \/ dst.exists /\ Fingerprint(dst.text) = Fingerprint(plan.outStr)
            \/ chk = File(<<Fingerprint(plan.outStr)>>)
    THEN [wrote |-> FALSE, wouldWrite |-> FALSE, merged |-> plan.merged,
          dst |-> dst, dir |-> dir, chk |-> chk]
    ELSE IF write
    THEN [wrote |-> ioOk, wouldWrite |-> TRUE, merged |-> plan.merged,
          dst |-> IF ioOk THEN File(plan.outStr) ELSE dst,
          dir |-> TRUE, chk |-> File(<<Fingerprint(plan.outStr)>>)]
    ELSE [wrote |-> FALSE, wouldWrite |-> TRUE, merged |-> plan.merged,
          dst |-> dst, dir |-> dir, chk |-> chk]

\* apply_json_merge(rule, src, dst, mcfg, write), given its plan.  ioOk:
\* whether fs::write to the target succeeds.
ApplyJsonMerge(plan, src, dst, dir, chk, write, ioOk) ==
    IF plan.kind = "nosrc"
    THEN [wrote |-> FALSE, wouldWrite |-> FALSE, merged |-> None,
          dst |-> dst, dir |-> dir, chk |-> chk]
    ELSE IF plan.kind = "copy" THEN CopyRule(src, dst, dir, chk, write, ioOk)
    ELSE IF dst.exists /\ Fingerprint(dst.text) = Fingerprint(plan.outStr)
    THEN [wrote |-> FALSE, wouldWrite |-> FALSE, merged |-> plan.merged,
          dst |-> dst, dir |-> dir, chk |-> chk]
    ELSE IF write
    THEN [wrote |-> ioOk, wouldWrite |-> TRUE, merged |-> plan.merged,
          dst |-> IF ioOk THEN File(plan.outStr) ELSE dst,
          dir |-> TRUE, chk |-> File(<<Fingerprint(plan.outStr)>>)]
    ELSE [wrote |-> FALSE, wouldWrite |-> TRUE, merged |-> plan.merged,
          dst |-> dst, dir |-> dir, chk |-> chk]

\* --------------------------------------------------- copy_rule on trees

\* What a path names in the file system: nothing, a file or a directory of
\* named entries.
NoNode == [kind |-> "none", text |-> <<>>, kids |-> <<>>]
FileNode(text) == [kind |-> "file", text |-> text, kids |-> <<>>]
DirNode(kids) == [kind |-> "dir", text |-> <<>>, kids |-> kids]
NoKids == [n \in {} |-> NoNode]

Child(dir, name) ==
    IF dir.kind = "dir" /\ name \in DOMAIN dir.kids THEN dir.kids[name] ELSE NoNode
WithChild(dir, name, node) ==
    DirNode([n \in DOMAIN dir.kids \cup {name} |-> IF n = name THEN node ELSE dir.kids[n]])

\* fs::create_dir_all on a path: a directory is made where nothing was; a
\* file in the way makes the call fail, which copy_rule does not look at.
MkDir(node) == IF node.kind = "none" THEN DirNode(NoKids) ELSE node

\* What a copy_rule call did at the path `name` of the directory `parent`:
\* r.mk is whether it called create_dir_all on parent or below it, r.node
\* what the path names now.
Attach(parent, name, r) ==
    LET p == IF r.mk THEN MkDir(parent) ELSE parent
    IN  IF p.kind = "dir" /\ r.node.kind # "none" THEN WithChild(p, name, r.node) ELSE p

\* copy_rule(rule, src, dst, write) where dst names `dst` now.  ioOk: whether
\* the file system lets fs::copy through.
RECURSIVE CopyNode(_, _, _, _)
RECURSIVE CopyEntries(_, _, _, _, _)
CopyNode(src, dst, write, ioOk) ==
    IF src.kind = "file"
    THEN [node |-> IF write /\ ioOk /\ dst.kind # "dir" THEN FileNode(src.text) ELSE dst,
          mk |-> TRUE, wrote |-> write, wouldWrite |-> TRUE]
    ELSE IF src.kind = "dir"
    THEN CopyEntries(src, DOMAIN src.kids,
                     [node |-> IF write THEN MkDir(dst) ELSE dst,
                      mk |-> write, wrote |-> FALSE, wouldWrite |-> FALSE],
                     write, ioOk)
    ELSE [node |-> dst, mk |-> FALSE, wrote |-> FALSE, wouldWrite |-> FALSE]

\* for entry in fs::read_dir(src): the entries still to visit, and what the
\* call has come to so far.
CopyEntries(src, names, acc, write, ioOk) ==
    IF names = {} THEN acc
    ELSE LET name == CHOOSE x \in names : TRUE
             r == CopyNode(src.kids[name], Child(acc.node, name), write, ioOk)
         IN  CopyEntries(src, names \ {name},
                         [node |-> Attach(acc.node, name, r),
                          mk |-> acc.mk \/ r.mk,
                          wrote |-> acc.wrote \/ r.wrote,
                          wouldWrite |-> acc.wouldWrite \/ r.wouldWrite],
                         write, ioOk)

\* ------------------------------------------------------- run_sync's gate

AsciiUpper == <<"A", "B", "C", "D", "E", "F", "G", "H", "I", "J", "K", "L", "M",
                "N", "O", "P", "Q", "R", "S", "T", "U", "V", "W", "X", "Y", "Z">>
AsciiLower == <<"a", "b", "c", "d", "e", "f", "g", "h", "i", "j", "k", "l", "m",
                "n", "o", "p", "q", "r", "s", "t", "u", "v", "w", "x", "y", "z">>
ToAsciiLower(c) ==
    IF \E i \in 1..26 : AsciiUpper[i] = c
    THEN AsciiLower[CHOOSE i \in 1..26 : AsciiUpper[i] = c]
    ELSE c

\* str::eq_ignore_ascii_case.
EqIgnoreAsciiCase(a, b) ==
    Len(a) = Len(b) /\ \A i \in 1..Len(a) : ToAsciiLower(a[i]) = ToAsciiLower(b[i])

\* w.split(|c| c == ',' || c == '|'): every piece, the empty ones too.
RECURSIVE SplitTokens(_, _)
SplitTokens(cs, cur) ==
    IF cs = <<>> THEN <<cur>>
    ELSE IF Head(cs) \in {",", "|"} THEN <<cur>> \o SplitTokens(Tail(cs), <<>>)
    ELSE SplitTokens(Tail(cs), Append(cur, Head(cs)))

\* is_rule_enabled that asks for a token but does not compare it with the scope.
MutIsRuleEnabled(when, scope) ==
    LET w == Trim(when)
        toks == SplitTokens(w, <<>>)
    IN  \/ w = <<>> \/ w = <<"*">>
        \/ EqIgnoreAsciiCase(w, <<"a", "n", "y">>) \/ EqIgnoreAsciiCase(w, <<"a", "l", "l">>)
        \/ \E i \in 1..Len(toks) : Trim(toks[i]) # <<>>

\* is_rule_enabled(when, scope).
IsRuleEnabled(when, scope) ==
    LET w == Trim(when)
        toks == SplitTokens(w, <<>>)
    IN  \/ w = <<>> \/ w = <<"*">>
        \/ EqIgnoreAsciiCase(w, <<"a", "n", "y">>) \/ EqIgnoreAsciiCase(w, <<"a", "l", "l">>)
        \/ \E i \in 1..Len(toks) :
                Trim(toks[i]) # <<>> /\ EqIgnoreAsciiCase(Trim(toks[i]), scope)

\* The loop of run_sync over index.sync: a rule whose id is ignored or whose
\* `when` does not admit the scope is passed over; every other rule goes
\* through apply_sync and adds an action.  root is the directory of the
\* targets, acc.actions the actions so far.
RECURSIVE SyncRules(_, _, _, _, _, _)
SyncRules(rules, scope, ignore, acc, write, ioOk) ==
    IF rules = <<>> THEN acc
    ELSE LET rule == Head(rules)
             r == CopyNode(rule.src, Child(acc.root, rule.target), write, ioOk)
         IN  IF rule.id \in ignore \/ ~IsRuleEnabled(rule.when, scope)
             THEN SyncRules(Tail(rules), scope, ignore, acc, write, ioOk)
             ELSE SyncRules(Tail(rules), scope, ignore,
                            [root |-> Attach(acc.root, rule.target, r),
                             actions |-> Append(acc.actions,
                                                [ruleId |-> rule.id, wrote |-> r.wrote,
                                                 wouldWrite |-> r.wouldWrite])],
                            write, ioOk)

\* ---------------------------------------- the normalizer as a state machine

VARIABLES
    ordTop,      \* order.top of the policy
    ordSub,      \* order.sub's lists, in the order this process's HashMap iterates
    ordJson,     \* the document
    ordPrev,     \* the document before the last apply_order_from
    ordChanged,  \* what the last apply_order_from returned
    ordRuns,     \* how many times apply_order_from ran on the document
    ordSubUsed,  \* the sub.values() order each of these runs iterated in
    lintIssue    \* "none", or "yes"/"no": whether lint raised the order issue

ordVars == <<ordTop, ordSub, ordJson, ordPrev, ordChanged, ordRuns, ordSubUsed, lintIssue>>

VARIABLES
    mSrc,   \* the sync rule's source file
    mDst,   \* its target file
    mDir,   \* whether the target's parent directory exists
    mChk,   \* the fingerprint marker file of the target
    mCfg,   \* the rule's merge configuration
    mLog    \* one record per apply_json_merge run so far

mrgVars == <<mSrc, mDst, mDir, mChk, mCfg, mLog>>

VARIABLES
    fData,  \* a target file of a format rule
    fCfg,   \* the rule's policy (order, linebreak) and run_format's arguments
    fSub,   \* order.sub's lists, in the order this process's HashMap iterates
    fLog    \* one record per run of run_format on the file so far

fmtVars == <<fData, fCfg, fSub, fLog>>

VARIABLES
    cSrc,   \* what the source path of a copy rule names
    cRoot,  \* what the parent directory of its target names
    cLog    \* one record per copy_rule run so far

copyVars == <<cSrc, cRoot, cLog>>

VARIABLES
    gRules,   \* index.sync: the sync rules
    gScope,   \* the scope run_sync is called with
    gIgnore,  \* [sync].ignore of the client configuration
    gHooks,   \* [sync.hooks].post of the client configuration: rule id to commands
    gRoot,    \* the directory the rules' targets are in
    gLog      \* one record per run_sync so far

gateVars == <<gRules, gScope, gIgnore, gHooks, gRoot, gLog>>

VARIABLES
    pMode,      \* "lint", or run_format's flags: "write", "plain", "diff"
    pPatterns,  \* the rule's patterns
    pFiles,     \* the files of the repository, by path
    pFiles0,    \* the files as they were when the rule's targets were collected
    pPhase,     \* "glob", "par" (the parallel map) or "done"
    pTargets,   \* the rule's targets, in the order they were collected
    pJobs,      \* the parallel map's closure calls, one per target
    pResults    \* what the rule added to the run's output

parVars == <<pMode, pPatterns, pFiles, pFiles0, pPhase, pTargets, pJobs, pResults>>

VARIABLES
    lRules,     \* index.rules: each an id, a policy path and patterns
    lPolicies,  \* the policy files, by path
    lFiles,     \* the files of the repository, by path
    lResult     \* run_lint's LintResult, once it has run

lintVars == <<lRules, lPolicies, lFiles, lResult>>

vars == <<ordVars, mrgVars, fmtVars, copyVars, gateVars, parVars, lintVars>>

K(c) == <<c>>
OrdKeys == {K("n"), K("a"), <<"a", "b">>, K("b")}
OrdSubKeys == {K("a"), <<"a", "b">>}
\* The groups order.top is made of: one key, or two in either order.
OrdGroups == {<<K("n")>>, <<K("a")>>, <<K("n"), K("a")>>, <<K("a"), K("n")>>}

\* Every key carries a value of its own, nested ones among them.
OrdValue(key) ==
    IF key = K("n") THEN JStr(K("x"))
    ELSE IF key = K("a") THEN JObj(<<Entry(K("b"), JNum(K("1"))), Entry(K("a"), JNum(K("2")))>>)
    ELSE IF key = K("b") THEN JArr(<<JNum(K("2")), JNum(K("1"))>>)
    ELSE JNum(K("1"))

OrdDocs ==
    {JObj([i \in 1..Len(ks) |-> Entry(ks[i], OrdValue(ks[i]))]) :
        ks \in {s \in SeqsUpTo(OrdKeys, MaxKeys) : IsInjective(s)}}
    \cup {JArr(<<JNum(K("1"))>>)}

OrdStart ==
    /\ ordTop \in SeqsUpTo(OrdGroups, MaxGroups)
    /\ ordSub \in SeqsUpTo({<<k>> : k \in OrdSubKeys}, MaxSubGroups)
    /\ ordJson \in OrdDocs
    /\ ordPrev = JNull
    /\ ordChanged = FALSE
    /\ ordRuns = 0
    /\ ordSubUsed = <<>>
    /\ lintIssue = "none"

\* run_format's call of apply_order_from on the parsed document.
OrdApply ==
    /\ ordRuns < 2
    /\ LET r == ApplyOrderFrom(ordJson, ordTop, ordSub)
       IN  /\ ordJson' = r.json
           /\ ordChanged' = r.changed
    /\ ordPrev' = ordJson
    /\ ordRuns' = ordRuns + 1
    /\ ordSubUsed' = Append(ordSubUsed, ordSub)
    /\ lintIssue' = "none"
    /\ UNCHANGED <<ordTop, ordSub>>
    /\ UNCHANGED <<mrgVars, fmtVars, copyVars, gateVars, parVars, lintVars>>

\* lint_rule's order check of the document as it is.
OrdLint ==
    /\ lintIssue = "none"
    /\ lintIssue' = IF LintOrderIssue(ordJson, ordTop) THEN "yes" ELSE "no"
    /\ UNCHANGED <<ordTop, ordSub, ordJson, ordPrev, ordChanged, ordRuns, ordSubUsed>>
    /\ UNCHANGED <<mrgVars, fmtVars, copyVars, gateVars, parVars, lintVars>>

\* A new run of the tool: the policy is parsed into a new HashMap, whose
\* RandomState is seeded anew, so sub.values() may come in another order.
OrdNewProcess ==
    /\ Len(ordSub) = 2
    /\ ordSub' = <<ordSub[2], ordSub[1]>>
    /\ ordSub' # ordSub
    /\ UNCHANGED <<ordTop, ordJson, ordPrev, ordChanged, ordRuns, ordSubUsed, lintIssue>>
    /\ UNCHANGED <<mrgVars, fmtVars, copyVars, gateVars, parVars, lintVars>>

OrdNext == OrdApply \/ OrdLint \/ OrdNewProcess

\* ------------------------------------------- the merge as a state machine

\* Most entries of a merge configuration, over all four of its lists.
MaxCfgEntries == 2
\* Most apply_json_merge runs of one rule.
MaxMergeRuns == 2

N(c) == JNum(K(c))
MPaths == {K("a"), <<"a", ".", "b">>}

\* What the key "a" is bound to in a source and in a target document.
MSrcVals ==
    {N("1"), JArr(<<N("1"), N("2"), N("1")>>),
     JObj(<<Entry(K("b"), N("1"))>>),
     JObj(<<Entry(K("b"), JArr(<<N("1"), N("2")>>))>>)}
MDstVals ==
    {N("2"), JArr(<<N("2"), N("3")>>),
     JObj(<<Entry(K("b"), N("2"))>>),
     JObj(<<Entry(K("b"), JArr(<<N("2"), N("3")>>))>>)}

\* The empty object, and the objects binding "a" to one of vals, then "c".
MDocs(vals) ==
    {JObj(<<>>)} \cup {JObj(<<Entry(K("a"), v), Entry(K("c"), N("3"))>>) : v \in vals}

Garbage == << <<"x">> >>

MArrayEntries == [path : MPaths, strat : {"union", "replace"}]

\* The configurations of at most MaxCfgEntries entries; arrayStrategy is a
\* map, so its paths are distinct.
MCfgs ==
    UNION {[override : [1..n[1] -> MPaths],
            keep : [1..n[2] -> MPaths],
            nosync : [1..n[3] -> MPaths],
            array : {e \in [1..n[4] -> MArrayEntries] :
                        \A i, j \in 1..n[4] : e[i].path = e[j].path => i = j}] :
        n \in {m \in [1..4 -> 0..MaxCfgEntries] : m[1] + m[2] + m[3] + m[4] <= MaxCfgEntries}}

MrgStart ==
    /\ mSrc \in {File(ToStringPretty(d)) : d \in MDocs(MSrcVals) \cup {JArr(<<N("1")>>)}}
                \cup {File(Garbage), NoFile}
    /\ mDst \in {File(ToStringPretty(d)) : d \in MDocs(MDstVals)} \cup {File(Garbage), NoFile}
    /\ mDir \in BOOLEAN
    /\ mDst.exists => mDir
    /\ mChk = NoFile
    /\ mCfg \in MCfgs
    /\ mLog = <<>>

OrdIdle ==
    /\ ordTop = <<>>
    /\ ordSub = <<>>
    /\ ordJson = JNull
    /\ ordPrev = JNull
    /\ ordChanged = FALSE
    /\ ordRuns = 0
    /\ ordSubUsed = <<>>
    /\ lintIssue = "none"

MrgIdle ==
    /\ mSrc = NoFile
    /\ mDst = NoFile
    /\ mDir = FALSE
    /\ mChk = NoFile
    /\ mCfg = [override |-> <<>>, keep |-> <<>>, nosync |-> <<>>, array |-> <<>>]
    /\ mLog = <<>>

\* apply_sync on a rule with format = "json" and a merge configuration:
\* one whole run of apply_json_merge.
MrgRun(plan, write, ioOk) ==
    /\ Len(mLog) < MaxMergeRuns
    /\ \E r \in {ApplyJsonMerge(plan, mSrc, mDst, mDir, mChk, write, ioOk)} :
        /\ mDst' = r.dst
        /\ mDir' = r.dir
        /\ mChk' = r.chk
        /\ mLog' = Append(mLog, [write |-> write, wrote |-> r.wrote,
                                  wouldWrite |-> r.wouldWrite, merged |-> r.merged,
                                  srcJson |-> plan.srcJson, dstJson |-> plan.dstJson,
                                  outStr |-> plan.outStr, cfgUsed |-> plan.cfg,
                                  dstBefore |-> mDst, dirBefore |-> mDir,
                                  chkBefore |-> mChk])
    /\ UNCHANGED <<mSrc, mCfg>>

\* mcfg.array is a HashMap: each process iterates its entries in an order
\* of its own.
ArrayOrders(cfg) ==
    {[cfg EXCEPT !.array = a] :
        a \in {b \in SeqsUpTo(Range(cfg.array), Len(cfg.array)) :
                    Len(b) = Len(cfg.array) /\ IsInjective(b)}}

\* run_sync(repo_root, index_path, scope, write) in a process of its own
\* (run_lint calls apply_sync with write = false).  A write the file system
\* may refuse; without write there is nothing to refuse.
RunSync ==
    /\ Len(mLog) < MaxMergeRuns
    /\ \E cfg \in ArrayOrders(mCfg) : \E plan \in {MergePlan(mSrc, mDst, cfg)} :
        \E write, ioOk \in BOOLEAN :
            /\ write \/ ioOk
            /\ MrgRun(plan, write, ioOk)
    /\ UNCHANGED <<ordVars, fmtVars, copyVars, gateVars, parVars, lintVars>>

MrgNext == RunSync

\* ------------------------------------------- the formatter as a state machine

\* Most blank lines in the file before its first format run.
MaxBlankLines == 1
\* Most entries over the policy's and the overrides' line-break settings.
MaxSettings == 1
\* Most run_format runs on the file.
MaxFmtRuns == 2

FKeys == {K("f"), K("g")}

FDocs ==
    {JObj(<<Entry(K("g"), JObj(<<Entry(K("a"), N("1")), Entry(K("b"), N("2"))>>)),
            Entry(K("f"), JObj(<<Entry(K("a"), N("1")), Entry(K("b"), JObj(<<>>))>>)),
            Entry(K("n"), JStr(K("x")))>>),
     JObj(<<Entry(K("f"), JObj(<<>>)),
            Entry(K("g"), JObj(<<Entry(K("f"), JObj(<<Entry(K("a"), N("1"))>>)),
                                 Entry(K("x"), N("1")), Entry(K("a"), N("2"))>>))>>),
     JObj(<<Entry(K("n"), JStr(K("{"))),
            Entry(K("g"), JObj(<<Entry(K("a"), N("1"))>>)),
            Entry(K("f"), N("1"))>>),
     JObj(<<Entry(K("n"), JStr(K("x"))),
            Entry(K("f"), JArr(<<JStr(K("g"))>>)),
            Entry(K("g"), JObj(<<>>))>>),
     JObj(<<Entry(K("n"), JStr(K("}"))),
            Entry(K("g"), JObj(<<Entry(K("f"), N("1"))>>))>>),
     JObj(<<Entry(K("g"), N("1")), Entry(K("n"), JStr(K("x")))>>),
     JArr(<<N("1")>>)}

\* text with a blank line before each line whose position is in at.
WithBlanks(text, at) ==
    Flatten([i \in 1..Len(text) |->
                IF i \in at THEN << <<>>, text[i] >> ELSE << text[i] >>])

FTexts ==
    UNION {{WithBlanks(ToStringPretty(d), at) :
                at \in {b \in SUBSET (2..Len(ToStringPretty(d))) :
                            Cardinality(b) <= MaxBlankLines}} : d \in FDocs}

RuleMaps(keys, rules) == UNION {[dom -> rules] : dom \in SUBSET keys}

FCfgs ==
    {c \in [hasOrder : {TRUE},
            top : {<<>>, << <<K("n")>>, <<K("f"), K("g")>> >>,
                   << <<K("n")>>, <<K("f")>>, <<K("g")>> >>},
            strict : BOOLEAN,
            betweenPol : {"absent", "true"},
            betweenOv : {"absent", "false"},
            before : RuleMaps(FKeys, {"keep", "none"}),
            beforeOv : RuleMaps({K("g")}, {"keep", "off"}),
            inF : RuleMaps(FKeys, {"keep", "none"}),
            inOv : RuleMaps({K("f")}, {"keep", "off"})] :
        Cardinality(DOMAIN c.before) + Cardinality(DOMAIN c.beforeOv)
            + Cardinality(DOMAIN c.inF) + Cardinality(DOMAIN c.inOv)
            + (IF c.betweenOv = "absent" THEN 0 ELSE 1) <= MaxSettings}

\* order.sub lists keys only where order.top lists none: the other policies
\* list every key of the documents in order.top.
FmtStart ==
    /\ fData \in {File(t) : t \in FTexts} \cup {File(Garbage), NoFile}
    /\ fCfg \in FCfgs
    /\ fSub \in IF fCfg.top = <<>> THEN {<<>>, << <<K("g")>>, <<K("f")>> >>} ELSE {<<>>}
    /\ fLog = <<>>

FmtIdle ==
    /\ fData = NoFile
    /\ fCfg = [hasOrder |-> FALSE, top |-> <<>>, strict |-> FALSE,
               betweenPol |-> "absent", betweenOv |-> "absent",
               before |-> NoRules, beforeOv |-> NoRules, inF |-> NoRules, inOv |-> NoRules]
    /\ fSub = <<>>
    /\ fLog = <<>>

\* One run of run_format over the rule's one target file.
FmtRun(plan, write, ioOk) ==
    /\ \E r \in {FormatFile(plan, fData, write, ioOk)} :
        /\ fData' = r.file
        /\ fLog' = Append(fLog, [write |-> write, before |-> fData, subUsed |-> fSub,
                                  changed |-> r.changed, preview |-> r.preview,
                                  brk |-> plan.brk, out |-> plan.out])
    /\ UNCHANGED <<fCfg, fSub>>

\* run_format(..., write, ...).  A write the file system may refuse;
\* without write there is nothing to refuse.
RunFormat ==
    /\ Len(fLog) < MaxFmtRuns
    /\ \E plan \in {FormatPlan(fData, fCfg, fSub)} :
        \E write, ioOk \in BOOLEAN :
            /\ write \/ ioOk
            /\ FmtRun(plan, write, ioOk)
    /\ UNCHANGED <<ordVars, mrgVars, copyVars, gateVars, parVars, lintVars>>

\* A new run of the tool: order.sub is parsed into a new HashMap.
FmtNewProcess ==
    /\ Len(fLog) < MaxFmtRuns
    /\ Len(fSub) = 2
    /\ fSub' = <<fSub[2], fSub[1]>>
    /\ UNCHANGED <<fData, fCfg, fLog>>
    /\ UNCHANGED <<ordVars, mrgVars, copyVars, gateVars, parVars, lintVars>>

FmtNext == RunFormat \/ FmtNewProcess

\* ------------------------------------------ copy_rule as a state machine

\* Most copy_rule runs of one rule.
MaxCopyRuns == 2

X == <<"x">>
Y == <<"y">>
OneKid(name, node) == [n \in {name} |-> node]
TwoKids(a, b) == [n \in {"a", "b"} |-> IF n = "a" THEN a ELSE b]

\* Sources: nothing, a file, and directories with and without files in them.
CSources ==
    {NoNode, FileNode(X), DirNode(NoKids),
     DirNode(OneKid("a", FileNode(X))),
     DirNode(TwoKids(FileNode(X), DirNode(NoKids))),
     DirNode(OneKid("a", DirNode(NoKids))),
     DirNode(OneKid("a", DirNode(OneKid("a", FileNode(X)))))}

\* The target's parent directory: missing, empty, or holding at "t" a file
\* or a directory.
CRoots ==
    {NoNode, DirNode(NoKids),
     DirNode(OneKid("t", FileNode(X))),
     DirNode(OneKid("t", FileNode(Y))),
     DirNode(OneKid("t", DirNode(NoKids))),
     DirNode(OneKid("t", DirNode(OneKid("a", FileNode(Y)))))}

CopyStart ==
    /\ cSrc \in CSources
    /\ cRoot \in CRoots
    /\ cLog = <<>>

CopyIdle ==
    /\ cSrc = NoNode
    /\ cRoot = NoNode
    /\ cLog = <<>>

\* apply_sync on a rule the merge engine does not take: copy_rule, called by
\* run_sync with its write flag and by run_lint with write = false.
ApplySync ==
    /\ Len(cLog) < MaxCopyRuns
    /\ \E write, ioOk \in BOOLEAN :
        /\ write \/ ioOk
        /\ \E r \in {CopyNode(cSrc, Child(cRoot, "t"), write, ioOk)} :
            /\ cRoot' = Attach(cRoot, "t", r)
            /\ cLog' = Append(cLog, [write |-> write, wrote |-> r.wrote,
                                      wouldWrite |-> r.wouldWrite, rootBefore |-> cRoot])
    /\ UNCHANGED cSrc
    /\ UNCHANGED <<ordVars, mrgVars, fmtVars, gateVars, parVars, lintVars>>

CopyNext == ApplySync

\* RunPostHooks running a rule's commands whether or not its action wrote.
RECURSIVE MutRunPostHooks(_, _)
MutRunPostHooks(actions, hooks) ==
    IF actions = <<>> THEN <<>>
    ELSE (IF Head(actions).ruleId \in DOMAIN hooks
          THEN [n \in 1..Len(hooks[Head(actions).ruleId]) |->
                    [kind |-> "hook", ruleId |-> Head(actions).ruleId,
                     cmd |-> hooks[Head(actions).ruleId][n]]]
          ELSE <<>>)
         \o MutRunPostHooks(Tail(actions), hooks)

\* for a in &actions { if a.wrote { post_hooks.get(&a.rule_id): each cmd is
\* run } }: the commands started, in order.
RECURSIVE RunPostHooks(_, _)
RunPostHooks(actions, hooks) ==
    IF actions = <<>> THEN <<>>
    ELSE (IF Head(actions).wrote /\ Head(actions).ruleId \in DOMAIN hooks
          THEN [n \in 1..Len(hooks[Head(actions).ruleId]) |->
                    [kind |-> "hook", ruleId |-> Head(actions).ruleId,
                     cmd |-> hooks[Head(actions).ruleId][n]]]
          ELSE <<>>)
         \o RunPostHooks(Tail(actions), hooks)

\* ------------------------------------------- run_sync as a state machine

\* Most rules of index.sync, and most run_sync runs.
MaxRules == 2
MaxGateRuns == 1

GWhens ==
    {<<>>, <<" ">>, <<"*">>, <<"A", "n", "y">>, <<"r">>, <<"L">>,
     <<"r", "|", "l">>, <<"x", ",", " ", "R">>, <<"*", ",", "l">>}
GScopes == {<<"r">>, <<"l">>, <<"a", "n", "y">>, <<>>}

\* Rule k has the id k and the target k; its source is a file.  Post hooks
\* are configured for every rule or for the first one only.
GateStart ==
    /\ \E n \in 1..MaxRules :
        /\ \E whens \in [1..n -> GWhens] :
            gRules = [k \in 1..n |->
                        [id |-> k, when |-> whens[k], target |-> k, src |-> FileNode(X)]]
        /\ gIgnore \in SUBSET (1..n)
        /\ gHooks \in {[k \in 1..n |-> <<"c", "d">>], [k \in {1} |-> <<"c", "d">>]}
    /\ gScope \in GScopes
    /\ gRoot = DirNode(NoKids)
    /\ gLog = <<>>

GateIdle ==
    /\ gRules = <<>>
    /\ gScope = <<>>
    /\ gIgnore = {}
    /\ gHooks = <<>>
    /\ gRoot = NoNode
    /\ gLog = <<>>

\* run_sync(repo_root, index_path, scope, write), with no target override
\* configured.  trace: the rules applied and the hook commands started, in
\* the order the calls are made.
RunSyncRules ==
    /\ Len(gLog) < MaxGateRuns
    /\ \E write, ioOk \in BOOLEAN :
        /\ write \/ ioOk
        /\ \E r \in {SyncRules(gRules, gScope, gIgnore,
                               [root |-> gRoot, actions |-> <<>>], write, ioOk)} :
            /\ gRoot' = r.root
            /\ gLog' = Append(gLog, [write |-> write, actions |-> r.actions,
                                      rootBefore |-> gRoot,
                                      trace |-> [a \in 1..Len(r.actions) |->
                                                    [kind |-> "apply",
                                                     ruleId |-> r.actions[a].ruleId,
                                                     cmd |-> ""]]
                                                \o RunPostHooks(r.actions, gHooks)])
    /\ UNCHANGED <<gRules, gScope, gIgnore, gHooks>>
    /\ UNCHANGED <<ordVars, mrgVars, fmtVars, copyVars, parVars, lintVars>>

GateNext == RunSyncRules

\* ------------------------- a rule's parallel phase as a state machine

\* Most patterns of a rule.
MaxPatterns == 2

PNames == {<<"a">>, <<"b">>}
PPatternSet == {<<"a">>, <<"b">>, <<"*">>}

\* glob::glob(pattern): the existing paths the pattern matches, in
\* alphabetical order.  A pattern is a path or "*".
RECURSIVE PathsInOrder(_)
PathsInOrder(S) ==
    IF S = {} THEN <<>>
    ELSE LET m == CHOOSE x \in S : \A y \in S \ {x} : LexLess(x, y)
         IN  <<m>> \o PathsInOrder(S \ {m})
Glob(pattern, files) ==
    PathsInOrder({n \in DOMAIN files :
                    files[n].exists /\ (pattern = <<"*">> \/ pattern = n)})

\* for pat in patterns { for entry in glob(pat) { targets.push(path) } }
RECURSIVE CollectTargets(_, _)
CollectTargets(patterns, files) ==
    IF patterns = <<>> THEN <<>>
    ELSE Glob(Head(patterns), files) \o CollectTargets(Tail(patterns), files)

\* The policy of the rule: order.top = [["n"]], no order.sub, no linebreak
\* rules.
PTop == << <<K("n")>> >>
PCfg ==
    [hasOrder |-> TRUE, top |-> PTop, strict |-> FALSE,
     betweenPol |-> "absent", betweenOv |-> "absent",
     before |-> NoRules, beforeOv |-> NoRules, inF |-> NoRules, inOv |-> NoRules]

PWrite == pMode = "write"
PCaptureOld == pMode = "diff"

\* What a file may hold: a document whose keys are out of order, one whose
\* keys are in order, one without a listed key, and no JSON at all.
PTexts ==
    {ToStringPretty(JObj(<<Entry(K("a"), N("1")), Entry(K("n"), N("2"))>>)),
     ToStringPretty(JObj(<<Entry(K("n"), N("2")), Entry(K("a"), N("1"))>>)),
     ToStringPretty(JObj(<<Entry(K("b"), N("1")), Entry(K("a"), N("2"))>>)),
     Garbage}

NoText == [some |-> FALSE, text |-> <<>>]
SomeText(t) == [some |-> TRUE, text |-> t]

\* The FormatResult of run_format's closure on a file holding data.
FormatResultOf(path, data, plan, write, captureOld) ==
    IF ~data.exists \/ ~FromStr(data.text).ok
    THEN [file |-> path, changed |-> FALSE, preview |-> NoText, original |-> NoText]
    ELSE [file |-> path, changed |-> plan.changed,
          preview |-> IF plan.changed /\ ~write THEN SomeText(plan.out) ELSE NoText,
          original |-> IF captureOld THEN SomeText(data.text) ELSE NoText]

\* LintResultOf with an issue for a file that is no JSON.
MutLintResultOf(path, data) ==
    IF ~data.exists \/ ~FromStr(data.text).ok
    THEN [issues |-> << [file |-> path, message |-> "parse"] >>, count |-> 0]
    ELSE [issues |-> IF LintOrderIssue(FromStr(data.text).v, PTop)
                     THEN << [file |-> path, message |-> "order"] >> ELSE <<>>,
          count |-> 1]

\* lint_rule's closure on a file holding data: its issues and its file
\* count (the policy has no checks).
LintResultOf(path, data) ==
    IF ~data.exists \/ ~FromStr(data.text).ok THEN [issues |-> <<>>, count |-> 0]
    ELSE [issues |-> IF LintOrderIssue(FromStr(data.text).v, PTop)
                     THEN << [file |-> path, message |-> "order"] >> ELSE <<>>,
          count |-> 1]

\* sort_by(|a, b| a.file.cmp(&b.file)), a stable sort (lint's second key,
\* the message, is the same on all its issues here).
RECURSIVE InsertByFile(_, _)
InsertByFile(sorted, r) ==
    IF sorted = <<>> THEN <<r>>
    ELSE IF LexLess(r.file, Head(sorted).file) THEN <<r>> \o sorted
    ELSE <<Head(sorted)>> \o InsertByFile(Tail(sorted), r)
RECURSIVE SortByFile(_)
SortByFile(rs) ==
    IF rs = <<>> THEN <<>>
    ELSE InsertByFile(SortByFile(SubSeq(rs, 1, Len(rs) - 1)), rs[Len(rs)])

RECURSIVE ConcatIssues(_)
ConcatIssues(jobs) ==
    IF jobs = <<>> THEN <<>> ELSE Head(jobs).lint.issues \o ConcatIssues(Tail(jobs))
RECURSIVE SumCounts(_)
SumCounts(jobs) ==
    IF jobs = <<>> THEN 0 ELSE Head(jobs).lint.count + SumCounts(Tail(jobs))

PFilesSet == [PNames -> {File(t) : t \in PTexts} \cup {NoFile}]

ParStart ==
    /\ pMode \in {"lint", "write", "plain", "diff"}
    /\ pPatterns \in SeqsUpTo(PPatternSet, MaxPatterns)
    /\ pFiles \in PFilesSet
    /\ pFiles0 = pFiles
    /\ pPhase = "glob"
    /\ pTargets = <<>>
    /\ pJobs = <<>>
    /\ pResults = [list |-> <<>>, files |-> 0]

ParIdle ==
    /\ pMode = "lint"
    /\ pPatterns = <<>>
    /\ pFiles = [n \in PNames |-> NoFile]
    /\ pFiles0 = pFiles
    /\ pPhase = "done"
    /\ pTargets = <<>>
    /\ pJobs = <<>>
    /\ pResults = [list |-> <<>>, files |-> 0]

NoJobResult ==
    [file |-> <<>>, changed |-> FALSE, preview |-> NoText, original |-> NoText]
JobTodo ==
    [pc |-> "todo", out |-> <<>>, result |-> NoJobResult,
     lint |-> [issues |-> <<>>, count |-> 0]]

\* The rule's targets are collected and the parallel map starts: one
\* closure call per entry of targets.
CollectRuleTargets ==
    /\ pPhase = "glob"
    /\ pTargets' = CollectTargets(pPatterns, pFiles)
    /\ pJobs' = [i \in 1..Len(pTargets') |-> JobTodo]
    /\ pPhase' = "par"
    /\ UNCHANGED <<pMode, pPatterns, pFiles, pFiles0, pResults>>
    /\ UNCHANGED <<ordVars, mrgVars, fmtVars, copyVars, gateVars, lintVars>>

\* A closure call of run_format reads its file and computes; unless it is to
\* write, that is all of it.
JobFormat(i) ==
    /\ pPhase = "par" /\ pMode # "lint" /\ pJobs[i].pc = "todo"
    /\ \E data \in {pFiles[pTargets[i]]} : \E plan \in {FormatPlan(data, PCfg, <<>>)} :
        pJobs' = [pJobs EXCEPT ![i] =
            [pc |-> IF plan.changed /\ PWrite THEN "create" ELSE "done",
             out |-> plan.out,
             result |-> FormatResultOf(pTargets[i], data, plan, PWrite, PCaptureOld),
             lint |-> @.lint]]
    /\ UNCHANGED <<pMode, pPatterns, pFiles, pFiles0, pPhase, pTargets, pResults>>
    /\ UNCHANGED <<ordVars, mrgVars, fmtVars, copyVars, gateVars, lintVars>>

\* fs::write(path, s), first half: File::create truncates the file.
JobCreate(i) ==
    /\ pPhase = "par" /\ pJobs[i].pc = "create"
    /\ pFiles' = [pFiles EXCEPT ![pTargets[i]] = File(<<>>)]
    /\ pJobs' = [pJobs EXCEPT ![i].pc = "write"]
    /\ UNCHANGED <<pMode, pPatterns, pFiles0, pPhase, pTargets, pResults>>
    /\ UNCHANGED <<ordVars, mrgVars, fmtVars, copyVars, gateVars, lintVars>>

\* fs::write(path, s), second half: write_all puts the text in.
JobWriteAll(i) ==
    /\ pPhase = "par" /\ pJobs[i].pc = "write"
    /\ pFiles' = [pFiles EXCEPT ![pTargets[i]] = File(pJobs[i].out)]
    /\ pJobs' = [pJobs EXCEPT ![i].pc = "done"]
    /\ UNCHANGED <<pMode, pPatterns, pFiles0, pPhase, pTargets, pResults>>
    /\ UNCHANGED <<ordVars, mrgVars, fmtVars, copyVars, gateVars, lintVars>>

\* A closure call of lint_rule reads its file and checks it.
JobLint(i) ==
    /\ pPhase = "par" /\ pMode = "lint" /\ pJobs[i].pc = "todo"
    /\ pJobs' = [pJobs EXCEPT ![i] =
            [pc |-> "done", out |-> <<>>, result |-> NoJobResult,
             lint |-> LintResultOf(pTargets[i], pFiles[pTargets[i]])]]
    /\ UNCHANGED <<pMode, pPatterns, pFiles, pFiles0, pPhase, pTargets, pResults>>
    /\ UNCHANGED <<ordVars, mrgVars, fmtVars, copyVars, gateVars, lintVars>>

\* collect() puts the closures' results in the order of targets; the rule
\* then sorts them and adds them to the run's output.
CollectResults ==
    /\ pPhase = "par"
    /\ \A i \in 1..Len(pJobs) : pJobs[i].pc = "done"
    /\ pResults' =
            IF pMode = "lint"
            THEN [list |-> SortByFile(ConcatIssues(pJobs)), files |-> SumCounts(pJobs)]
            ELSE [list |-> SortByFile([i \in 1..Len(pJobs) |-> pJobs[i].result]),
                  files |-> 0]
    /\ pPhase' = "done"
    /\ UNCHANGED <<pMode, pPatterns, pFiles, pFiles0, pTargets, pJobs>>
    /\ UNCHANGED <<ordVars, mrgVars, fmtVars, copyVars, gateVars, lintVars>>

ParNext ==
    \/ CollectRuleTargets
    \/ \E i \in 1..Len(pJobs) : JobFormat(i)
    \/ \E i \in 1..Len(pJobs) : JobCreate(i)
    \/ \E i \in 1..Len(pJobs) : JobWriteAll(i)
    \/ \E i \in 1..Len(pJobs) : JobLint(i)
    \/ CollectResults

\* ------------------------------------------- run_lint as a state machine

\* Most rules of index.rules.
MaxLintRules == 2

\* A policy file: missing, no TOML, or a policy with order.top = [["n"]]
\* and the order.level written in it, if any.
LLevels == {"absent", "error", "warning", "warn", "info"}
LPolicies ==
    {[status |-> "missing", level |-> "absent"], [status |-> "invalid", level |-> "absent"]}
    \cup {[status |-> "ok", level |-> l] : l \in LLevels}
LPolPaths == {<<"p", "1">>, <<"p", "2">>}

\* lint_rule's closure on one target: the order check's issue, with the
\* policy's level as its severity ("error" when none is written), and the
\* file's count.
LintFile(path, data, policy, id) ==
    IF ~data.exists \/ ~FromStr(data.text).ok THEN [issues |-> <<>>, count |-> 0]
    ELSE [issues |->
            IF LintOrderIssue(FromStr(data.text).v, PTop)
            THEN << [file |-> path, rule |-> id,
                     severity |-> IF policy.level = "absent" THEN "error" ELSE policy.level,
                     message |-> "order"] >>
            ELSE <<>>,
          count |-> 1]

\* MutLintRule: lint_rule going on to the rule's documents after the issue
\* for its policy file.
MutLintRule(rule, policies, files, acc) ==
    LET policy == policies[rule.policy]
        targets == CollectTargets(rule.patterns, files)
        perFile == [i \in 1..Len(targets) |->
                        [lint |-> LintFile(targets[i], files[targets[i]], policy, rule.id)]]
        bad == IF policy.status = "ok" THEN <<>>
               ELSE << [file |-> rule.policy, rule |-> rule.id, severity |-> "error",
                        message |-> policy.status] >>
    IN  [issues |-> acc.issues \o bad \o SortByFile(ConcatIssues(perFile)),
         files |-> acc.files + SumCounts(perFile)]

\* lint_rule(root, idx_path, ri, issues, files_count, ...): a policy file
\* that cannot be read or parsed gives one issue and ends the rule.
LintRule(rule, policies, files, acc) ==
    LET policy == policies[rule.policy]
        targets == CollectTargets(rule.patterns, files)
        perFile == [i \in 1..Len(targets) |->
                        [lint |-> LintFile(targets[i], files[targets[i]], policy, rule.id)]]
    IN  IF policy.status # "ok"
        THEN [issues |-> Append(acc.issues,
                            [file |-> rule.policy, rule |-> rule.id, severity |-> "error",
                             message |-> policy.status]),
              files |-> acc.files]
        ELSE [issues |-> acc.issues \o SortByFile(ConcatIssues(perFile)),
              files |-> acc.files + SumCounts(perFile)]

\* for ri in index.rules { lint_rule(...) }
RECURSIVE LintRules(_, _, _, _)
LintRules(rules, policies, files, acc) ==
    IF rules = <<>> THEN acc
    ELSE LintRules(Tail(rules), policies, files, LintRule(Head(rules), policies, files, acc))

\* The loop over the issues that fills the summary's counters.
RECURSIVE CountSeverities(_, _)
CountSeverities(issues, acc) ==
    IF issues = <<>> THEN acc
    ELSE CountSeverities(Tail(issues),
            IF Head(issues).severity = "error" THEN [acc EXCEPT !.errors = @ + 1]
            ELSE IF Head(issues).severity = "warning" THEN [acc EXCEPT !.warnings = @ + 1]
            ELSE [acc EXCEPT !.infos = @ + 1])

\* run_lint on an index that is read and parsed and has no sync policy.
LintResultFor(rules, policies, files) ==
    LET r == LintRules(rules, policies, files, [issues |-> <<>>, files |-> 0])
        c == CountSeverities(r.issues, [errors |-> 0, warnings |-> 0, infos |-> 0])
    IN  [done |-> TRUE, issues |-> r.issues,
         summary |-> [errors |-> c.errors, warnings |-> c.warnings, infos |-> c.infos,
                      files |-> r.files]]

NoLintResult ==
    [done |-> FALSE, issues |-> <<>>,
     summary |-> [errors |-> 0, warnings |-> 0, infos |-> 0, files |-> 0]]

\* Rule k has the id k; its patterns are one path or "*".
LintStart ==
    /\ \E n \in 1..MaxLintRules :
        \E pols \in [1..n -> LPolPaths] : \E pats \in [1..n -> {<<"a">>, <<"*">>}] :
            lRules = [k \in 1..n |-> [id |-> k, policy |-> pols[k], patterns |-> <<pats[k]>>]]
    /\ lPolicies \in [LPolPaths -> LPolicies]
    /\ lFiles \in [PNames -> {File(t) : t \in PTexts}]
    /\ lResult = NoLintResult

LintIdle ==
    /\ lRules = <<>>
    /\ lPolicies = [q \in LPolPaths |-> [status |-> "missing", level |-> "absent"]]
    /\ lFiles = [n \in PNames |-> NoFile]
    /\ lResult = NoLintResult

\* run_lint(repo_root, index_path, scope, patterns_override), with no
\* pattern override.
RunLint ==
    /\ ~lResult.done
    /\ lResult' = LintResultFor(lRules, lPolicies, lFiles)
    /\ UNCHANGED <<lRules, lPolicies, lFiles>>
    /\ UNCHANGED <<ordVars, mrgVars, fmtVars, copyVars, gateVars, parVars>>

LintNext == RunLint

OrdInit == OrdStart /\ MrgIdle /\ FmtIdle /\ CopyIdle /\ GateIdle /\ ParIdle /\ LintIdle
MrgInit == MrgStart /\ OrdIdle /\ FmtIdle /\ CopyIdle /\ GateIdle /\ ParIdle /\ LintIdle
FmtInit == FmtStart /\ OrdIdle /\ MrgIdle /\ CopyIdle /\ GateIdle /\ ParIdle /\ LintIdle
CopyInit == CopyStart /\ OrdIdle /\ MrgIdle /\ FmtIdle /\ GateIdle /\ ParIdle /\ LintIdle
GateInit == GateStart /\ OrdIdle /\ MrgIdle /\ FmtIdle /\ CopyIdle /\ ParIdle /\ LintIdle
ParInit == ParStart /\ OrdIdle /\ MrgIdle /\ FmtIdle /\ CopyIdle /\ GateIdle /\ LintIdle
LintInit == LintStart /\ OrdIdle /\ MrgIdle /\ FmtIdle /\ CopyIdle /\ GateIdle /\ ParIdle

SpecOrder == OrdInit /\ [][OrdNext]_vars

SpecMerge == MrgInit /\ [][MrgNext]_vars

SpecFormat == FmtInit /\ [][FmtNext]_vars

SpecCopy == CopyInit /\ [][CopyNext]_vars

SpecGate == GateInit /\ [][GateNext]_vars

SpecPar == ParInit /\ [][ParNext]_vars

SpecLint == LintInit /\ [][LintNext]_vars

\* ------------------------------------------------ claims on the normalizer

\* The present keys of a listing, each once, at its first listing.
RECURSIVE FirstListings(_, _, _)
FirstListings(keys, present, seen) ==
    IF keys = <<>> THEN <<>>
    ELSE IF Head(keys) \in present /\ Head(keys) \notin seen
    THEN <<Head(keys)>> \o FirstListings(Tail(keys), present, seen \cup {Head(keys)})
    ELSE FirstListings(Tail(keys), present, seen)

Ascending(s) == \A i, j \in 1..Len(s) : i < j => LexLess(s[i], s[j])

OrdBefore == MapKeys(ordPrev.kv)
OrdAfter == MapKeys(ordJson.kv)
OrdTopPart == FirstListings(Flatten(ordTop), Range(OrdBefore), {})
OrdSubSet == (Range(Flatten(ordSub)) \cap Range(OrdBefore)) \ Range(OrdTopPart)
OrdRestSet == Range(OrdBefore) \ (Range(OrdTopPart) \cup OrdSubSet)

\* C1: after apply_order_from the key sequence is the present keys of
\* order.top (group order, in-group order, a key at its first listing), then
\* the present keys of the order.sub groups (the groups in the order the map
\* gave them, each in its declared order), then every other key in ascending
\* lexicographic order.
C1_OrderCorrect ==
    (ordRuns >= 1 /\ ordPrev.t = "obj") =>
        LET nT == Len(OrdTopPart)
            nS == Cardinality(OrdSubSet)
            rest == SubSeq(OrdAfter, nT + nS + 1, Len(OrdAfter))
        IN  /\ Len(OrdAfter) = Len(OrdBefore)
            /\ SubSeq(OrdAfter, 1, nT) = OrdTopPart
            /\ SubSeq(OrdAfter, nT + 1, nT + nS) =
                    FirstListings(Flatten(ordSubUsed[ordRuns]), OrdSubSet, {})
            /\ Range(rest) = OrdRestSet
            /\ Ascending(rest)

\* A run on a four-key object with a key of order.top listed twice, a key
\* of order.sub, and two unlisted keys that came in descending order.
C1_Witness ==
    /\ ordRuns = 1
    /\ ordPrev.t = "obj"
    /\ Len(OrdBefore) = 4
    /\ ~IsInjective(Flatten(ordTop))
    /\ OrdTopPart # <<>>
    /\ OrdSubSet # {}
    /\ Cardinality(OrdRestSet) = 2
    /\ \E i, j \in 1..4 : /\ i < j
                          /\ {OrdBefore[i], OrdBefore[j]} = OrdRestSet
                          /\ LexLess(OrdBefore[j], OrdBefore[i])
    /\ OrdAfter # OrdBefore

\* C2: apply_order_from on an object that is already its own output under
\* the same order spec (the same map, iterated in the same order) returns
\* changed = false and leaves the key sequence as it is.
C2_Idempotent ==
    (ordRuns = 2 /\ ordSubUsed[1] = ordSubUsed[2]) =>
        (ordChanged = FALSE /\ OrdAfter = OrdBefore)

\* C10: lint raises the order issue iff the key sequence differs from the
\* one apply_order_from would produce.
C10_LintAgreesWithNormalizer ==
    lintIssue # "none" =>
        (lintIssue = "yes" <=>
            ApplyOrderFrom(ordJson, ordTop, ordSub).json # ordJson)

\* The keys order.top and the order.sub lists of the last run name.
OrdListed == Range(Flatten(ordTop)) \cup Range(Flatten(ordSubUsed[ordRuns]))

MSrcJson(i) == mLog[i].srcJson
MDstJson(i) == mLog[i].dstJson
MMerged(i) == mLog[i].merged.v
MergeRuns == {i \in 1..Len(mLog) : mLog[i].merged.some}
\* The run the log ends with.  The log only grows, so every run is the last
\* one in the state it leaves.
LastMergeRun == {i \in MergeRuns : i = Len(mLog)}

IsPrefix(a, b) == Len(a) <= Len(b) /\ SubSeq(b, 1, Len(a)) = a
MArrayPaths == {mCfg.array[j].path : j \in 1..Len(mCfg.array)}
MKeepPaths == Range(mCfg.keep) \cup Range(mCfg.nosync)

\* C3: a path in overridePaths and in keepPaths or noSyncPaths, held by
\* source and target, is bound in the merged document to the source's value.
C3_OverrideWins ==
    \A i \in MergeRuns : \A p \in Range(mCfg.override) \cap MKeepPaths :
        (GetJsonPath(MSrcJson(i), p).some /\ GetJsonPath(MDstJson(i), p).some) =>
            GetJsonPath(MMerged(i), p) = GetJsonPath(MSrcJson(i), p)

C5_SecondRunIsNoOp ==
    (Len(mLog) = 2 /\ mLog[1].merged.some /\ mLog[1].write /\ mLog[1].wrote) =>
        (~mLog[2].wouldWrite /\ ~mLog[2].wrote /\ mDst = mLog[2].dstBefore)

\* The target file and the marker file as run i left them.
MDstAfter(i) == IF i < Len(mLog) THEN mLog[i + 1].dstBefore ELSE mDst
MChkAfter(i) == IF i < Len(mLog) THEN mLog[i + 1].chkBefore ELSE mChk
MDirAfter(i) == IF i < Len(mLog) THEN mLog[i + 1].dirBefore ELSE mDir

\* C12: in a structural merge wouldWrite is false iff the target exists and
\* its text's fingerprint equals that of the serialized merged document (so
\* it is true when the target is absent); wrote is true only if write was
\* asked for, wouldWrite is true and the target now holds the serialized
\* document; without write neither the target nor the marker is written.
C12_WouldWriteAndWrote ==
    \A i \in LastMergeRun : \A e \in {mLog[i]} : \A out \in {ToStringPretty(mLog[i].merged.v)} :
            /\ ~e.wouldWrite <=>
                    (e.dstBefore.exists /\ Fingerprint(e.dstBefore.text) = Fingerprint(out))
            /\ ~e.dstBefore.exists => e.wouldWrite
            /\ e.wrote => (e.write /\ e.wouldWrite /\ MDstAfter(i) = File(out))
            /\ (e.write /\ e.wouldWrite /\ ~e.wrote) => MDstAfter(i) = e.dstBefore
            /\ ~e.write =>
                    (~e.wrote /\ MDstAfter(i) = e.dstBefore /\ MChkAfter(i) = e.chkBefore)

\* A dry run that would write over a target that differs, after a run that
\* met an absent target and wrote it.
C12_Witness ==
    /\ Len(mLog) = 2
    /\ mLog[1].merged.some /\ ~mLog[1].dstBefore.exists
    /\ mLog[1].write /\ mLog[1].wouldWrite /\ mLog[1].wrote
    /\ mLog[2].merged.some /\ ~mLog[2].write /\ mLog[2].wouldWrite
    /\ mDst = mLog[2].dstBefore /\ mChk = mLog[2].chkBefore

\* C20: two merge runs over the same source, target text and merge
\* configuration (iterated alike), asked alike to write or not, return the
\* same merged document and the same wouldWrite whatever the marker file
\* holds, and the same wrote unless the file system refused a write.
C20_MarkerIsNoInput ==
    \A i \in MergeRuns : \A j \in LastMergeRun :
        (/\ mLog[i].dstBefore = mLog[j].dstBefore
         /\ mLog[i].cfgUsed = mLog[j].cfgUsed
         /\ mLog[i].write = mLog[j].write) =>
            /\ mLog[i].merged = mLog[j].merged
            /\ mLog[i].wouldWrite = mLog[j].wouldWrite
            /\ mLog[i].wrote = mLog[j].wrote \/ (mLog[i].write /\ mLog[i].wouldWrite)

\* Two runs alike but for the marker: absent at the first, which wrote it
\* and then failed to write the target, and holding the output's fingerprint
\* at the second, which still reports that it would write.
C20_Witness ==
    /\ Len(mLog) = 2
    /\ mLog[1].merged.some /\ mLog[2].merged.some
    /\ mLog[1].dstBefore = mLog[2].dstBefore
    /\ mLog[1].cfgUsed = mLog[2].cfgUsed
    /\ mLog[1].write = mLog[2].write
    /\ ~mLog[1].chkBefore.exists
    /\ mLog[2].chkBefore = File(<<Fingerprint(mLog[2].outStr)>>)
    /\ mLog[2].wouldWrite

\* The target's items, then each item of the source that is not among them
\* nor earlier in the source.
UnionExpected(da, sa) ==
    LET fresh(j) == /\ \A k \in 1..Len(da) : da[k] # sa[j]
                    /\ \A k \in 1..(j - 1) : sa[k] # sa[j]
        F[j \in 0..Len(sa)] ==
            IF j = 0 THEN da
            ELSE IF fresh(j) THEN Append(F[j - 1], sa[j]) ELSE F[j - 1]
    IN  F[Len(sa)]

\* C6 as claimed: at a path with strategy union where the source holds an
\* array, the merged value is the target's array followed by the source's
\* items not yet present, in source order.
C6_UnionAlways ==
    \A i \in MergeRuns : \A j \in 1..Len(mCfg.array) :
        LET p == mCfg.array[j].path
            sv == GetJsonPath(MSrcJson(i), p)
            dv == GetJsonPath(MDstJson(i), p)
        IN  (mCfg.array[j].strat = "union" /\ sv.some /\ sv.v.t = "arr") =>
                GetJsonPath(MMerged(i), p) =
                    Some(JArr(UnionExpected(IF dv.some /\ dv.v.t = "arr" THEN dv.v.el ELSE <<>>,
                                            sv.v.el)))

\* Whether json is an object in which every proper ancestor of the path is
\* bound to an object or to nothing.
RECURSIVE ObjectsAlong(_, _)
ObjectsAlong(json, segs) ==
    /\ json.t = "obj"
    /\ \/ Len(segs) <= 1
       \/ ~MapContains(json.kv, Head(segs))
       \/ ObjectsAlong(MapGet(json.kv, Head(segs)), Tail(segs))

ProperPrefix(p, q) == PathSegs(p) # PathSegs(q) /\ IsPrefix(PathSegs(p), PathSegs(q))

\* Whether the keep, noSync and array lists name, besides p, a path that is a
\* proper prefix or a proper extension of p.
Overlapped(p) ==
    \E q \in MKeepPaths \cup MArrayPaths : ProperPrefix(q, p) \/ ProperPrefix(p, q)

MLists == <<"override", "keep", "nosync", "array">>
MListIndex(l) == CHOOSE n \in 1..4 : MLists[n] = l
MEntryPath(cfg, l, k) == IF l = "array" THEN cfg[l][k].path ELSE cfg[l][k]

\* cfg cut off after the first n entries of list l, and cfg without entry k
\* of list l.
MCfgUpTo(cfg, l, n) ==
    [f \in DOMAIN cfg |->
        IF MListIndex(f) < MListIndex(l) THEN cfg[f]
        ELSE IF f = l THEN SubSeq(cfg[f], 1, n)
        ELSE <<>>]
MCfgWithout(cfg, l, k) ==
    [cfg EXCEPT ![l] = SubSeq(cfg[l], 1, k - 1) \o SubSeq(cfg[l], k + 1, Len(cfg[l]))]

\* C19: when the result, as it is when a configured path's turn comes, is an
\* object that binds a segment before the path's last to a value that is no
\* object, the path's update leaves the result as it was, and the merged
\* document is the one the configuration without that path yields.
C19_BlockedPathIsSkipped ==
    \A i \in LastMergeRun : \A l \in Range(MLists) :
        \A k \in 1..Len(mLog[i].cfgUsed[l]) :
          \A cfg \in {mLog[i].cfgUsed} :
            \A before \in {MergeResult(MSrcJson(i), MDstJson(i), MCfgUpTo(cfg, l, k - 1))} :
                (before.t = "obj" /\ ~ObjectsAlong(before, PathSegs(MEntryPath(cfg, l, k)))) =>
                    /\ MergeResult(MSrcJson(i), MDstJson(i), MCfgUpTo(cfg, l, k)) = before
                    /\ MMerged(i) = MergeResult(MSrcJson(i), MDstJson(i), MCfgWithout(cfg, l, k))

\* A merge whose keepPaths name a.b, which the target binds, while the
\* source binds a to a value that is no object: that update is skipped, and
\* with the override of the merge's other path applied the merged document
\* is the source's.
C19_Witness ==
    /\ Len(mLog) = 1 /\ mLog[1].merged.some
    /\ Len(mCfg.keep) = 1
    /\ GetJsonPath(MDstJson(1), mCfg.keep[1]).some
    /\ MSrcJson(1).t = "obj"
    /\ ~ObjectsAlong(MSrcJson(1), PathSegs(mCfg.keep[1]))
    /\ Len(mCfg.override) = 1
    /\ ~GetJsonPath(MMerged(1), mCfg.keep[1]).some
    /\ MMerged(1) = MSrcJson(1)

C6_Union ==
    \A i \in LastMergeRun : \A j \in 1..Len(mCfg.array) :
        LET p == mCfg.array[j].path
            sv == GetJsonPath(MSrcJson(i), p)
            dv == GetJsonPath(MDstJson(i), p)
        IN  (/\ mCfg.array[j].strat = "union" /\ sv.some /\ sv.v.t = "arr"
             /\ \A q \in MKeepPaths \cup MArrayPaths : ~ProperPrefix(q, p)) =>
                GetJsonPath(MMerged(i), p) =
                    Some(JArr(UnionExpected(IF dv.some /\ dv.v.t = "arr" THEN dv.v.el ELSE <<>>,
                                            sv.v.el)))

\* A union of a source array and a target array that share an item and have
\* each an item of their own, after a merge run.
C6_Witness ==
    /\ Len(mLog) = 1 /\ mLog[1].merged.some
    /\ \E j \in 1..Len(mCfg.array) :
        LET p == mCfg.array[j].path
            sv == GetJsonPath(MSrcJson(1), p)
            dv == GetJsonPath(MDstJson(1), p)
            mv == GetJsonPath(MMerged(1), p)
        IN  /\ mCfg.array[j].strat = "union"
            /\ sv.some /\ sv.v.t = "arr" /\ dv.some /\ dv.v.t = "arr"
            /\ \A q \in MKeepPaths \cup MArrayPaths : ~ProperPrefix(q, p)
            /\ \E x \in Range(sv.v.el) : x \in Range(dv.v.el)
            /\ \E x \in Range(sv.v.el) : x \notin Range(dv.v.el)
            /\ mv.some /\ mv.v.t = "arr"
            /\ Len(mv.v.el) > Len(dv.v.el) /\ Len(mv.v.el) < Len(dv.v.el) + Len(sv.v.el)
            /\ SubSeq(mv.v.el, 1, Len(dv.v.el)) = dv.v.el

\* ---------------------------------------------------- claims on the formatter

\* In a pretty-printed text, the key k of an object nested d deep is the line
\* indented by 2 * d that starts with the quoted k and a colon.
IsKeyLine(line, d, k) ==
    /\ Len(line) - Len(TrimStart(line)) = 2 * d
    /\ LET t == TrimStart(line)
       IN  Len(t) >= Len(k) + 3 /\ SubSeq(t, 1, Len(k) + 3) = Quote(k) \o <<":">>

TopKeyLine(text, k) == CHOOSE i \in 1..Len(text) : IsKeyLine(text[i], 1, k)

\* The line of the child k of the top-level field f: the last top-level key
\* line before it is that of f.
ChildLine(text, f, k) ==
    CHOOSE i \in 1..Len(text) :
        /\ IsKeyLine(text[i], 2, k)
        /\ \E j \in 1..(i - 1) :
            /\ IsKeyLine(text[j], 1, f)
            /\ \A m \in (j + 1)..(i - 1) : Len(text[m]) - Len(TrimStart(text[m])) # 2

\* How many blank lines come right before line i.
RECURSIVE BlanksBefore(_, _)
BlanksBefore(text, i) ==
    IF i > 1 /\ text[i - 1] = <<>> THEN 1 + BlanksBefore(text, i - 1) ELSE 0

\* The runs that produced a text, with the line-break passes applied.
FmtStrictRuns == {i \in 1..Len(fLog) : fLog[i].changed /\ fCfg.strict}

\* C7: with between_groups set, in the output of apply_linebreaks the first
\* top-level key that is first in a group of order.top has no blank line
\* before it, and every later one has exactly one, or none when its
\* before_fields rule is None.
C7_BetweenGroups ==
    \A i \in FmtStrictRuns :
        (BetweenGroups(fCfg) /\ fCfg.top # <<>>) =>
            LET brk == fLog[i].brk
                gf == SelectSeq(MapKeys(FromStr(brk).v.kv),
                                LAMBDA k : k \in GroupFirstKeys(fCfg.top))
                rules == MergeLinebreakFields(fCfg.before, fCfg.beforeOv)
            IN  \A j \in 1..Len(gf) :
                    BlanksBefore(brk, TopKeyLine(brk, gf[j])) =
                        IF j = 1 \/ RuleOf(rules, gf[j]) = "none" THEN 0 ELSE 1

\* C8: for a top-level field f with in_fields rule Keep whose value is an
\* object, the output has exactly one blank line before the child k iff k is
\* not the first child and the original text had a blank line right before
\* k inside f, and none otherwise.
C8_InFieldFidelity ==
    \A i \in FmtStrictRuns :
        LET orig == fLog[i].before.text
            out == fLog[i].out
            doc == FromStr(orig).v
            rules == MergeLinebreakFields(fCfg.inF, fCfg.inOv)
        IN  \A f \in {k \in DOMAIN rules : rules[k] = "keep"} :
                (MapContains(doc.kv, f) /\ MapGet(doc.kv, f).t = "obj") =>
                    LET kids == MapKeys(MapGet(doc.kv, f).kv)
                    IN  \A n \in 1..Len(kids) :
                            BlanksBefore(out, ChildLine(out, f, kids[n])) =
                                IF n > 1 /\ orig[ChildLine(orig, f, kids[n]) - 1] = <<>>
                                THEN 1 ELSE 0

\* C9: a format run on the text a format run wrote, under the same policy
\* and configuration (and the same iteration order of order.sub), produces
\* that same text.
C9_RoundTrip ==
    (/\ Len(fLog) = 2
     /\ fLog[1].changed /\ fLog[1].write
     /\ fLog[2].before = File(fLog[1].out)
     /\ fLog[2].subUsed = fLog[1].subUsed) =>
        (fLog[2].changed /\ fLog[2].out = fLog[1].out)

\* C15: two format runs that read the same text under the same policy and
\* configuration report the same changed and produce the same output text
\* (hence the same key order), whichever process ran them.
C15_FormatDeterministic ==
    \A i, j \in 1..Len(fLog) :
        fLog[i].before = fLog[j].before =>
            (fLog[i].changed = fLog[j].changed /\ fLog[i].out = fLog[j].out)

\* --------------------------------------------------- claims on the copy path

CRootAfter(i) == IF i < Len(cLog) THEN cLog[i + 1].rootBefore ELSE cRoot

\* C18: on every copy_rule run wouldWrite is true iff the source is a file
\* or a directory, whatever the directory holds and whatever the target is;
\* with write set and such a source, wrote is true.
C18_CopyWouldWrite ==
    \A i \in 1..Len(cLog) :
        /\ cLog[i].wouldWrite <=> cSrc.kind \in {"file", "dir"}
        /\ (cLog[i].write /\ cSrc.kind \in {"file", "dir"}) => cLog[i].wrote

\* C14: a run with write not set leaves every file and directory as it was.
C14_NoMutationWithoutWrite ==
    \A i \in 1..Len(cLog) : ~cLog[i].write => CRootAfter(i) = cLog[i].rootBefore

\* --------------------------------------------------- claims on run_sync's gate

GSeparators == {",", "|"}

\* The tokens of a `when`: its longest stretches without a comma or a pipe,
\* trimmed.
GTokens(w) ==
    {Trim(SubSeq(w, i, j)) : <<i, j>> \in
        {p \in (1..Len(w)) \X (1..Len(w)) :
            /\ p[1] <= p[2]
            /\ \A n \in p[1]..p[2] : w[n] \notin GSeparators
            /\ p[1] = 1 \/ w[p[1] - 1] \in GSeparators
            /\ p[2] = Len(w) \/ w[p[2] + 1] \in GSeparators}}

GWildcard(w) ==
    \/ w = <<"*">>
    \/ EqIgnoreAsciiCase(w, <<"a", "n", "y">>)
    \/ EqIgnoreAsciiCase(w, <<"a", "l", "l">>)

\* A rule whose `when` is neither empty nor a wildcard and has no token that
\* is the scope (letter case aside).
GGated(rule) ==
    /\ Trim(rule.when) # <<>>
    /\ ~GWildcard(Trim(rule.when))
    /\ \A t \in GTokens(Trim(rule.when)) : ~EqIgnoreAsciiCase(t, gScope)

GActed(i, rule) == \E a \in 1..Len(gLog[i].actions) : gLog[i].actions[a].ruleId = rule.id
GRootAfter(i) == IF i < Len(gLog) THEN gLog[i + 1].rootBefore ELSE gRoot

\* C13: a rule gated by its `when`, and a rule whose id is ignored, yields
\* no action and leaves its target as it was; a rule that is not ignored and
\* whose `when` is empty or "*" yields an action, whatever the scope.
C13_ScopeGating ==
    \A i \in 1..Len(gLog) : \A k \in 1..Len(gRules) :
        /\ (GGated(gRules[k]) \/ gRules[k].id \in gIgnore) =>
                /\ ~GActed(i, gRules[k])
                /\ Child(GRootAfter(i), gRules[k].target) =
                        Child(gLog[i].rootBefore, gRules[k].target)
        /\ (gRules[k].id \notin gIgnore /\ Trim(gRules[k].when) \in {<<>>, <<"*">>}) =>
                GActed(i, gRules[k])

\* run_sync with write set under scope "l" on a rule with when = "r" and a
\* rule with when = "*": only the second rule acts and has its target
\* written.
C13_Witness ==
    /\ Len(gLog) = 1 /\ gLog[1].write
    /\ Len(gRules) = 2 /\ gIgnore = {}
    /\ gScope = <<"l">>
    /\ gRules[1].when = <<"r">> /\ gRules[2].when = <<"*">>
    /\ Len(gLog[1].actions) = 1 /\ gLog[1].actions[1].ruleId = 2
    /\ gLog[1].actions[1].wrote
    /\ Child(gRoot, 1) = NoNode
    /\ Child(gRoot, 2) = FileNode(X)


\* --------------------------------------- claims on the parallel phase

\* The closure calls run one after the other, in the order of targets: the
\* results they give, starting from the files as they were.
RECURSIVE SequentialJobs(_, _, _)
SequentialJobs(files, targets, mode) ==
    IF targets = <<>> THEN <<>>
    ELSE LET t == Head(targets)
             data == files[t]
             plan == FormatPlan(data, PCfg, <<>>)
             job == IF mode = "lint"
                    THEN [JobTodo EXCEPT !.pc = "done", !.lint = LintResultOf(t, data)]
                    ELSE [JobTodo EXCEPT !.pc = "done", !.out = plan.out,
                            !.result = FormatResultOf(t, data, plan, mode = "write",
                                                      mode = "diff")]
             after == IF mode = "write" /\ plan.changed
                      THEN [files EXCEPT ![t] = File(plan.out)] ELSE files
         IN  <<job>> \o SequentialJobs(after, Tail(targets), mode)

SequentialResults(files, targets, mode) ==
    LET jobs == SequentialJobs(files, targets, mode)
    IN  IF mode = "lint"
        THEN [list |-> SortByFile(ConcatIssues(jobs)), files |-> SumCounts(jobs)]
        ELSE [list |-> SortByFile([i \in 1..Len(jobs) |-> jobs[i].result]), files |-> 0]

OrderedByFile(list) ==
    \A i \in 1..Len(list) : \A j \in (i + 1)..Len(list) :
        ~LexLess(list[j].file, list[i].file)

\* C16: what a rule adds to the output of run_lint or run_format is ordered
\* by file and is the same for every order in which its closure calls run
\* and finish: it is what the calls give when they run one after the other.
C16_OutputIndependentOfWorkers ==
    pPhase = "done" =>
        /\ OrderedByFile(pResults.list)
        /\ pResults = SequentialResults(pFiles0, pTargets, pMode)

\* C17: no path is given to two closure calls of a rule's parallel phase,
\* whatever the rule's patterns match, so no call reads a file that another
\* call has truncated and not yet written.
C17_OnePathOneWorker ==
    \A i \in 1..Len(pTargets) : \A j \in 1..Len(pTargets) :
        i # j =>
            /\ pTargets[i] # pTargets[j]
            /\ ~(pJobs[i].pc = "todo" /\ pJobs[j].pc = "write"
                    /\ pTargets[i] = pTargets[j])


\* ------------------------------------- more claims on the normalizer

\* C22: apply_order_from on an object leaves an object with the same keys,
\* each bound to the value it was bound to, nested key order included; a
\* document that is no object is left as it is, with changed false.
C22_PermutationOfEntries ==
    ordRuns > 0 =>
        IF ordPrev.t = "obj"
        THEN /\ ordJson.t = "obj"
             /\ Len(ordJson.kv) = Len(ordPrev.kv)
             /\ Range(MapKeys(ordJson.kv)) = Range(MapKeys(ordPrev.kv))
             /\ \A k \in Range(MapKeys(ordPrev.kv)) :
                    MapGet(ordJson.kv, k) = MapGet(ordPrev.kv, k)
        ELSE ordJson = ordPrev /\ ~ordChanged

\* A run that reordered an object of three keys, one listed in order.top
\* and one bound to an object whose keys are not sorted and not listed.
C22_Witness ==
    /\ ordRuns = 1 /\ ordPrev.t = "obj" /\ Len(ordPrev.kv) = 3
    /\ ordJson # ordPrev /\ ordChanged
    /\ MapContains(ordPrev.kv, K("a"))
    /\ K("a") \notin Range(Flatten(ordTop)) \cup Range(Flatten(ordSub))

\* -------------------------------------- more claims on the formatter

\* The text run i gave to apply_linebreaks: the ordered document, pretty
\* printed.
FmtPretty(i) ==
    ToStringPretty(ApplyOrderFrom(FromStr(fLog[i].before.text).v, fCfg.top,
                                  fLog[i].subUsed).json)
NonBlank(text) == SelectSeq(text, LAMBDA line : line # <<>>)

\* C23: the between-group pass puts no blank line before a key nested at
\* depth 2 or deeper that is named like a group-first key, whatever braces
\* the document's strings hold, and its output without the blank lines is
\* its input.
C23_BetweenGroupsDepthOne ==
    \A i \in FmtStrictRuns :
        (BetweenGroups(fCfg) /\ fCfg.top # <<>>) =>
            \A brk \in {fLog[i].brk} :
                /\ NonBlank(brk) = FmtPretty(i)
                /\ \A j \in 2..Len(brk) :
                        (\E d \in 2..3 : \E k \in GroupFirstKeys(fCfg.top) :
                            IsKeyLine(brk[j], d, k)) => brk[j - 1] # <<>>

\* The groups of order.top with a key the document binds, and the first
\* such key of a group.
PresentGroups(top, kv) ==
    SelectSeq(top, LAMBDA grp : \E n \in 1..Len(grp) : MapContains(kv, grp[n]))
FirstPresent(grp, kv) ==
    grp[CHOOSE n \in 1..Len(grp) :
            /\ MapContains(kv, grp[n])
            /\ \A m \in 1..(n - 1) : ~MapContains(kv, grp[m])]

\* C24: with between_groups set and no before_fields rule, when the
\* document binds keys of two or more groups of order.top, the output has
\* one blank line before the first present key of every present group but
\* the first, and none before the first present group.
C24_BlankLineBeforeEveryGroup ==
    \A i \in FmtStrictRuns :
        \A kv \in {FromStr(fLog[i].before.text).v.kv} :
          \A present \in {PresentGroups(fCfg.top, kv)} :
            (/\ BetweenGroups(fCfg)
             /\ DOMAIN MergeLinebreakFields(fCfg.before, fCfg.beforeOv) = {}
             /\ Len(present) >= 2) =>
                \A j \in 1..Len(present) :
                    BlanksBefore(fLog[i].brk,
                                 TopKeyLine(fLog[i].brk, FirstPresent(present[j], kv)))
                        = IF j = 1 THEN 0 ELSE 1

\* The position in text of its n-th line that is not blank, and the key of
\* the object a line of a pretty-printed text is a direct child of (none
\* for a child of the root or of an array).
RECURSIVE NthNonBlank(_, _, _)
NthNonBlank(text, n, from) ==
    IF text[from] = <<>> THEN NthNonBlank(text, n, from + 1)
    ELSE IF n = 1 THEN from
    ELSE NthNonBlank(text, n - 1, from + 1)
LineIndent(line) == Len(line) - Len(TrimStart(line))
ParentField(pretty, n) ==
    LET above == {m \in 1..(n - 1) : LineIndent(pretty[m]) = LineIndent(pretty[n]) - 2}
    IN  IF above = {} THEN NoField
        ELSE LET m == CHOOSE x \in above : \A y \in above : y <= x
             IN  IF pretty[m][Len(pretty[m])] = "{" THEN LineKey(TrimStart(pretty[m]))
                 ELSE NoField

\* C29: the in-field pass treats a line as a child of a configured field
\* only between the field's opening line and its closing brace: where its
\* output has another number of blank lines before a line than its input,
\* the line is a direct child of a field that in_fields names.
C29_ActiveFieldReset ==
    \A i \in FmtStrictRuns : \A pretty \in {FmtPretty(i)} :
        \A inFields \in {MergeLinebreakFields(fCfg.inF, fCfg.inOv)} :
            \A n \in 1..Len(pretty) :
                BlanksBefore(fLog[i].out, NthNonBlank(fLog[i].out, n, 1))
                        # BlanksBefore(fLog[i].brk, NthNonBlank(fLog[i].brk, n, 1)) =>
                    \E f \in DOMAIN inFields :
                        ParentField(pretty, n) = [some |-> TRUE, k |-> f]

\* ------------------------------------------ more claims on the merge

\* The paths the configuration names, and the paths looked at: those of the
\* configurations and the key "c", which no configuration names.
MConfigured == Range(mCfg.override) \cup MKeepPaths \cup MArrayPaths
MRelated(p, q) ==
    IsPrefix(PathSegs(p), PathSegs(q)) \/ IsPrefix(PathSegs(q), PathSegs(p))
MProbePaths == MPaths \cup {K("c")}

\* C21: at a path that is no configured path, nor above or below one, the
\* merged document holds what the source holds there, and nothing when the
\* source holds nothing (a key of the target alone does not appear); with no
\* configured path at all the merged document is the source.
C21_StartsFromSource ==
    \A i \in LastMergeRun :
        /\ \A p \in MProbePaths :
                (\A q \in MConfigured : ~MRelated(p, q)) =>
                    GetJsonPath(MMerged(i), p) = GetJsonPath(MSrcJson(i), p)
        /\ MConfigured = {} => MMerged(i) = MSrcJson(i)

\* A merge with a kept path "a" that the target binds, of an empty source
\* object into a target that binds "c" as well: "c" is not in the merged
\* document, "a" is.
C21_Witness ==
    /\ Len(mLog) = 1 /\ mLog[1].merged.some
    /\ mCfg.keep = <<K("a")>>
    /\ MSrcJson(1) = JObj(<<>>)
    /\ GetJsonPath(MDstJson(1), K("c")).some
    /\ GetJsonPath(MMerged(1), K("a")).some
    /\ ~GetJsonPath(MMerged(1), K("c")).some


\* C28: the turn of a keepPaths or noSyncPaths entry that the target does
\* not bind removes the entry's path from the result and does no more; when
\* the source does not bind the path either, the result is after the turn
\* what it was before.
C28_ClearingAddsNothing ==
    \A i \in LastMergeRun : \A l \in {"keep", "nosync"} :
        \A k \in 1..Len(mLog[i].cfgUsed[l]) :
          \A cfg \in {mLog[i].cfgUsed} :
            \A before \in {MergeResult(MSrcJson(i), MDstJson(i), MCfgUpTo(cfg, l, k - 1))} :
              \A after \in {MergeResult(MSrcJson(i), MDstJson(i), MCfgUpTo(cfg, l, k))} :
                ~GetJsonPath(MDstJson(i), cfg[l][k]).some =>
                    /\ \A q \in MProbePaths :
                            GetJsonPath(after, q).some => GetJsonPath(before, q).some
                    /\ ~GetJsonPath(MSrcJson(i), cfg[l][k]).some => after = before


\* ------------------------------------- claims on malformed documents

\* The matched paths that hold no JSON, and the files without path t.
Malformed == {t \in Range(pTargets) : ~FromStr(pFiles0[t].text).ok}
FilesWithout(t) == [pFiles0 EXCEPT ![t] = NoFile]
PTwice == \E i, j \in 1..Len(pTargets) : i # j /\ pTargets[i] = pTargets[j]

\* C25: a matched document that is no JSON gives no lint issue, and in
\* format changed = false with the file left as it is; the rule's output for
\* the other documents is the one of the rule run without that document.
\* (Where a path is matched twice and written, the output depends on the
\* workers, and there is no one output to compare with.)
C25_MalformedIsSkipped ==
    pPhase = "done" =>
        \A t \in Malformed :
            /\ pFiles[t] = pFiles0[t]
            /\ \A n \in 1..Len(pResults.list) :
                    pResults.list[n].file = t =>
                        pMode # "lint" /\ pResults.list[n] = [NoJobResult EXCEPT !.file = t]
            /\ ~(PWrite /\ PTwice) =>
                    \A ref \in {SequentialResults(FilesWithout(t),
                                    CollectTargets(pPatterns, FilesWithout(t)), pMode)} :
                        /\ SelectSeq(pResults.list, LAMBDA r : r.file # t) = ref.list
                        /\ pResults.files = ref.files

\* A finished rule that matched a file that is no JSON and a document whose
\* keys are out of order.
C25_Witness ==
    /\ pPhase = "done"
    /\ Malformed = {<<"a">>}
    /\ pTargets = << <<"a">>, <<"b">> >>
    /\ Len(pResults.list) >= 1
    /\ \E n \in 1..Len(pResults.list) : pResults.list[n].file = <<"b">>


\* ---------------------------------------------- claims on run_lint

IssuesOf(issues, id) == SelectSeq(issues, LAMBDA is : is.rule = id)
BadPolicy(k) == lPolicies[lRules[k].policy].status # "ok"

\* C26: a rule whose policy file is missing or no TOML has exactly one
\* issue, of severity error, and adds nothing to the file count; the other
\* rules have the issues and the file count they have when linted alone.
C26_BadPolicyOneIssue ==
    lResult.done =>
        /\ \A k \in 1..Len(lRules) :
                IF BadPolicy(k)
                THEN /\ Len(IssuesOf(lResult.issues, k)) = 1
                     /\ IssuesOf(lResult.issues, k)[1].severity = "error"
                ELSE IssuesOf(lResult.issues, k) =
                        LintResultFor(<<lRules[k]>>, lPolicies, lFiles).issues
        /\ lResult.summary.files =
                LintResultFor(SelectSeq(lRules, LAMBDA r : lPolicies[r.policy].status = "ok"),
                              lPolicies, lFiles).summary.files

\* A run over two rules: the first has no policy file and matches a
\* document that a policy would report, the second has a policy and has an
\* issue.
C26_Witness ==
    /\ lResult.done /\ Len(lRules) = 2
    /\ lPolicies[lRules[1].policy].status = "missing"
    /\ LintOrderIssue(FromStr(lFiles[<<"a">>].text).v, PTop)
    /\ ~BadPolicy(2)
    /\ Len(IssuesOf(lResult.issues, 2)) >= 1
    /\ lResult.summary.files >= 1

SeverityCount(issues, sevs) ==
    Len(SelectSeq(issues, LAMBDA is : is.severity \in sevs))

\* C27: the summary's errors, warnings and infos add up to the number of
\* issues; errors counts the issues of severity error, warnings those of a
\* warning severity (level written "warn" or "warning"), infos those of
\* severity info.
C27_SummaryPartition ==
    lResult.done =>
        /\ lResult.summary.errors + lResult.summary.warnings + lResult.summary.infos
                = Len(lResult.issues)
        /\ lResult.summary.errors = SeverityCount(lResult.issues, {"error"})
        /\ lResult.summary.warnings = SeverityCount(lResult.issues, {"warn", "warning"})
        /\ lResult.summary.infos = SeverityCount(lResult.issues, {"info"})


\* ------------------------------------------------ claims on the hooks

HooksOf(i, k) ==
    SelectSeq(gLog[i].trace, LAMBDA e : e.kind = "hook" /\ e.ruleId = k)
GWrote(i, k) ==
    \E a \in 1..Len(gLog[i].actions) :
        gLog[i].actions[a].ruleId = k /\ gLog[i].actions[a].wrote

====
